---- MODULE Spec2Model ----
(***************************************************************************)
(* Model of the sports-betting-calculator core:                            *)
(*   - betting_framework.py : normalize_contract_price,                    *)
(*     calculate_whole_contracts, user_input_betting_framework             *)
(*   - excel_processor.py   : process_betting_excel (evaluate, sort,       *)
(*     allocate) and apply_bankroll_allocation                             *)
(*                                                                         *)
(* Numbers.  The program computes in Python floats.  The model computes    *)
(* in exact rational arithmetic: a number is a record [n, d] with d > 0    *)
(* in lowest terms.  Binary rounding of floats is not modelled; every      *)
(* comparison, truncation and division by zero is.  A Python              *)
(* ZeroDivisionError is modelled as the outcome Raise(..).                 *)
(***************************************************************************)
EXTENDS Integers, Sequences, FiniteSets, TLC

VARIABLES
    call,                \* the pure-function call under evaluation: [fn, ...args]
    ret,                 \* its outcome: Pending, Return(value) or Raise(exception)
    commission_manager,  \* the global CommissionManager: [rate, platform]
    shared_state,        \* CommissionManager._shared_commission_rate / _shared_platform
    settings_file,       \* config/settings.py: [exists, writable, rate, platform]
    instances,           \* the other CommissionManager objects: <<[rate, platform]>>
    pc,                  \* position of process_betting_excel / apply_bankroll_allocation
    weekly_bankroll,     \* the batch's bankroll
    input_rows,          \* the rows read from the sheet: <<[win_pct, contract_price]>>
    df,                  \* results_df: the sequence of result rows
    index,               \* next row of the loop in progress (1-based)
    remaining_bankroll,  \* apply_bankroll_allocation's local
    cumulative_bet       \* apply_bankroll_allocation's local

vars == <<call, ret, commission_manager, shared_state, settings_file, instances, pc,
          weekly_bankroll, input_rows, df, index, remaining_bankroll, cumulative_bet>>

\* the commission settings: the global instance, the class-level copy, the file,
\* the instances constructed after the import
managerVars == <<commission_manager, shared_state, settings_file, instances>>

----------------------------------------------------------------------------
(* Exact rational arithmetic standing in for Python float arithmetic.       *)

Abs(x) == IF x < 0 THEN -x ELSE x

RECURSIVE Gcd(_, _)
Gcd(a, b) == IF b = 0 THEN a ELSE Gcd(b, a % b)

\* the rational n/d (d # 0) in lowest terms with a positive denominator
R(n, d) ==
    LET g == Gcd(Abs(n), Abs(d))
        s == IF d < 0 THEN -1 ELSE 1
    IN  [n |-> (s * n) \div g, d |-> (s * d) \div g]

Zero == R(0, 1)
One == R(1, 1)
Hundred == R(100, 1)

\* common factors are divided out before multiplying, to keep the integers small
RAdd(x, y) ==
    LET g == Gcd(x.d, y.d)
    IN  R(x.n * (y.d \div g) + y.n * (x.d \div g), (x.d \div g) * y.d)
RSub(x, y) ==
    LET g == Gcd(x.d, y.d)
    IN  R(x.n * (y.d \div g) - y.n * (x.d \div g), (x.d \div g) * y.d)
RMul(x, y) ==
    LET g1 == Gcd(Abs(x.n), y.d)
        g2 == Gcd(Abs(y.n), x.d)
    IN  IF x.n = 0 \/ y.n = 0 THEN [n |-> 0, d |-> 1]
        ELSE R((x.n \div g1) * (y.n \div g2), (x.d \div g2) * (y.d \div g1))
\* x / y, for y # 0 (the callers raise ZeroDivisionError first)
RDiv(x, y) == RMul(x, R(y.d, y.n))
RLt(x, y) ==
    LET g == Gcd(x.d, y.d)
    IN  x.n * (y.d \div g) < y.n * (x.d \div g)
RLe(x, y) ==
    LET g == Gcd(x.d, y.d)
    IN  x.n * (y.d \div g) <= y.n * (x.d \div g)
RGt(x, y) == RLt(y, x)
RGe(x, y) == RLe(y, x)
RIsZero(x) == x.n = 0
RMin(x, y) == IF RLe(x, y) THEN x ELSE y

\* mutant of PyInt: rounds up to the next whole number
PyIntCeil(x) == IF x.n >= 0 THEN (x.n + x.d - 1) \div x.d ELSE -((-x.n) \div x.d)

\* Python's int(x) on a float: truncation toward zero
PyInt(x) == IF x.n >= 0 THEN x.n \div x.d ELSE -((-x.n) \div x.d)

\* an int as a number
FromInt(k) == R(k, 1)

\* Python's None (for an omitted commission_per_contract)
None == [none |-> TRUE]

\* outcomes of a Python call
Pending == [exc |-> "pending", value |-> <<>>]
Return(v) == [exc |-> "None", value |-> v]
Raise(e) == [exc |-> e, value |-> <<>>]

\* dict.get(key, default)
Get(dict, key, default) == IF key \in DOMAIN dict THEN dict[key] ELSE default

----------------------------------------------------------------------------
(* commission_manager.py                                                    *)

\* CommissionManager.DEFAULT_PLATFORM, DEFAULT_COMMISSION_RATE
DEFAULT_PLATFORM == "Robinhood"
DEFAULT_COMMISSION_RATE == R(2, 100)

\* CommissionManager.MIN_COMMISSION_RATE, MAX_COMMISSION_RATE
MIN_COMMISSION_RATE == Zero
MAX_COMMISSION_RATE == One

\* CommissionManager.PLATFORM_PRESETS ("Custom" maps to None)
PLATFORM_PRESETS ==
    [p \in {"Robinhood", "Kalshi", "PredictIt", "Polymarket", "Custom"} |->
        CASE p = "Robinhood" -> R(2, 100)
          [] p = "Kalshi" -> Zero
          [] p = "PredictIt" -> R(10, 100)
          [] p = "Polymarket" -> Zero
          [] p = "Custom" -> None]

\* float("nan"): a float for which every comparison with a number is false
NaN == [nan |-> TRUE]

\* isinstance(rate, (int, float)): numbers are the records [n, d] and NaN
IsNumber(rate) == DOMAIN rate = {"n", "d"} \/ rate = NaN

\* a validation that also rejects the bounds 0.00 and 1.00
validate_commission_rate_strict(rate) ==
    IF ~IsNumber(rate) THEN "TypeError"
    ELSE IF rate # NaN /\ (RLe(rate, MIN_COMMISSION_RATE) \/ RGe(rate, MAX_COMMISSION_RATE))
    THEN "ValueError"
    ELSE "None"

\* CommissionManager._validate_commission_rate: the exception raised, "None" when
\* the rate is accepted
validate_commission_rate(rate) ==
    IF ~IsNumber(rate) THEN "TypeError"
    ELSE IF rate # NaN /\ (RLt(rate, MIN_COMMISSION_RATE) \/ RGt(rate, MAX_COMMISSION_RATE))
    THEN "ValueError"
    ELSE "None"

\* CommissionManager._save_settings: the CURRENT_COMMISSION_RATE and
\* CURRENT_PLATFORM lines are rewritten when the file exists and can be written;
\* a missing file and a PermissionError / OSError leave it as it is.  The rate
\* pattern "[0-9.]+|None" does not match a rate line that holds "nan", which
\* therefore stays as it is
save_settings(file, cm) ==
    IF file.exists /\ file.writable
    THEN [file EXCEPT !.rate = IF file.rate = NaN THEN NaN ELSE cm.rate,
                      !.platform = cm.platform]
    ELSE file

\* the leading digits of a float printed in exponent notation (1e-05 -> 1)
RECURSIVE Mantissa(_)
Mantissa(x) == IF RGe(x, One) THEN x ELSE Mantissa(RMul(x, R(10, 1)))

\* what "[0-9.]+" and float() read back from the rate line: a rate printed in
\* plain decimals is read back as written; one below 0.0001 is printed in
\* exponent notation and only the digits before the "e" are matched
ReadBackRate(rate) ==
    IF RIsZero(rate) \/ RGe(rate, R(1, 10000)) THEN rate ELSE Mantissa(rate)

\* CommissionManager._load_settings: the saved rate and platform when the file
\* exists and holds a valid rate, the defaults otherwise (also when the rate
\* line holds "nan" or the platform line holds "", which the patterns
\* "[0-9.]+|None" and "[^\"']+" do not match)
load_settings(file) ==
    IF ~file.exists \/ file.rate = None \/ file.rate = NaN \/ file.platform = ""
    THEN [rate |-> DEFAULT_COMMISSION_RATE, platform |-> DEFAULT_PLATFORM]
    ELSE LET rate == ReadBackRate(file.rate)
         IN  IF validate_commission_rate(rate) = "None"
             THEN [rate |-> rate, platform |-> file.platform]
             ELSE [rate |-> DEFAULT_COMMISSION_RATE, platform |-> DEFAULT_PLATFORM]

\* CommissionManager.get_commission_rate
get_commission_rate(cm) ==
    IF cm.rate = None THEN DEFAULT_COMMISSION_RATE ELSE cm.rate

\* CommissionManager.get_current_platform
get_current_platform(cm) ==
    IF cm.platform = "" THEN DEFAULT_PLATFORM ELSE cm.platform

----------------------------------------------------------------------------
(* betting_framework.py                                                     *)

\* a normalizer that keeps exactly 1.0 as a dollar price
normalize_contract_price_strict(contract_price) ==
    IF RGt(contract_price, One)
    THEN RDiv(contract_price, Hundred)
    ELSE contract_price

\* a normalizer that divides by 10
normalize_contract_price_dimes(contract_price) ==
    IF RGe(contract_price, One)
    THEN RDiv(contract_price, R(10, 1))
    ELSE contract_price

\* if contract_price >= 1.0: return contract_price / 100.0, else unchanged
normalize_contract_price(contract_price) ==
    IF RGe(contract_price, One)
    THEN RDiv(contract_price, Hundred)
    ELSE contract_price

\* mutant of calculate_whole_contracts: the unused amount is taken from the
\* contracts' price without the commission
calculate_whole_contracts_unused_without_commission(target_bet_amount, contract_price, commission_per_contract) ==
    LET adjusted_price == RAdd(contract_price, commission_per_contract)
    IN  IF RIsZero(adjusted_price)
        THEN Raise("ZeroDivisionError")
        ELSE
          LET fractional_contracts == RDiv(target_bet_amount, adjusted_price)
              whole_contracts == PyInt(fractional_contracts)
              actual_bet_amount == RMul(FromInt(whole_contracts), adjusted_price)
              unused_amount == RSub(target_bet_amount,
                                    RMul(FromInt(whole_contracts), contract_price))
          IN  Return([whole_contracts |-> whole_contracts,
                      actual_bet_amount |-> actual_bet_amount,
                      unused_amount |-> unused_amount,
                      adjusted_price |-> adjusted_price])

\* a contract cost with the commission taken off the price
ContractCostRebate(contract_price, commission_per_contract) ==
    RSub(contract_price, commission_per_contract)

\* calculate_whole_contracts: "adjusted_price = contract_price + commission_per_contract"
ContractCost(contract_price, commission_per_contract) ==
    RAdd(contract_price, commission_per_contract)

\* calculate_whole_contracts(target_bet_amount, contract_price, commission_per_contract)
\* with commission_per_contract already resolved (see ResolveCommission)
calculate_whole_contracts(target_bet_amount, contract_price, commission_per_contract) ==
    LET adjusted_price == ContractCost(contract_price, commission_per_contract)
    IN  IF RIsZero(adjusted_price)
        THEN Raise("ZeroDivisionError")
        ELSE
          LET fractional_contracts == RDiv(target_bet_amount, adjusted_price)
              whole_contracts == PyInt(fractional_contracts)
              actual_bet_amount == RMul(FromInt(whole_contracts), adjusted_price)
              unused_amount == RSub(target_bet_amount, actual_bet_amount)
          IN  Return([whole_contracts |-> whole_contracts,
                      actual_bet_amount |-> actual_bet_amount,
                      unused_amount |-> unused_amount,
                      adjusted_price |-> adjusted_price])

\* a resolution that always asks the CommissionManager
ResolveCommissionManagerOnly(commission_per_contract, cm) == get_commission_rate(cm)

\* "if commission_per_contract is None: commission_manager.get_commission_rate()"
ResolveCommission(commission_per_contract, cm) ==
    IF commission_per_contract = None
    THEN get_commission_rate(cm)
    ELSE commission_per_contract

\* a win percentage read as a probability only below 1
NormalizeWinPercentageStrict(model_win_percentage) ==
    IF RLt(model_win_percentage, One)
    THEN model_win_percentage
    ELSE RDiv(model_win_percentage, Hundred)

\* model_win_percentage if model_win_percentage <= 1 else model_win_percentage / 100
NormalizeWinPercentage(model_win_percentage) ==
    IF RLe(model_win_percentage, One)
    THEN model_win_percentage
    ELSE RDiv(model_win_percentage, Hundred)

EV_THRESHOLD == R(10, 1)
HALF_KELLY == R(1, 2)
\* a cap of one quarter of the bankroll
MAX_BET_FRACTION_QUARTER == R(25, 100)
MAX_BET_FRACTION == R(15, 100)

\* mutant of FinalFraction: the 15% cap is not applied
FinalFractionUncapped(half_kelly_fraction) == half_kelly_fraction

\* Step 5: final_fraction = min(half_kelly_fraction, 0.15)
FinalFraction(half_kelly_fraction) == RMin(half_kelly_fraction, MAX_BET_FRACTION)

\* a stake computed as a percentage of the bankroll
TargetBetAmountPercent(final_fraction, weekly_bankroll_) ==
    RMul(RMul(final_fraction, Hundred), weekly_bankroll_)

\* Step 6: target_bet_amount = final_fraction * weekly_bankroll
TargetBetAmount(final_fraction, weekly_bankroll_) ==
    RMul(final_fraction, weekly_bankroll_)

\* Steps 4-7 and the two return statements after the Kelly fraction is known
SizeBet(weekly_bankroll_, normalized_price, commission, ev_per_dollar, ev_percentage, full_kelly_fraction) ==
    LET half_kelly_fraction == RMul(full_kelly_fraction, HALF_KELLY)
        final_fraction == FinalFraction(half_kelly_fraction)
        target_bet_amount == TargetBetAmount(final_fraction, weekly_bankroll_)
        contract_call == calculate_whole_contracts(target_bet_amount, normalized_price,
                                                   commission)
        contract_info == contract_call.value
    IN  IF contract_call.exc # "None" THEN contract_call
        ELSE IF contract_info.whole_contracts = 0
        THEN \* commission_increase divides by normalized_price
             IF RIsZero(normalized_price) THEN Raise("ZeroDivisionError")
             ELSE Return([decision |-> "NO BET",
                          reason |-> "insufficient for 1 whole contract",
                          ev_percentage |-> ev_percentage,
                          bet_amount |-> Zero,
                          normalized_price |-> normalized_price,
                          target_bet_amount |-> target_bet_amount,
                          contracts_to_buy |-> 0,
                          commission_per_contract |-> commission,
                          adjusted_price |-> contract_info.adjusted_price])
        ELSE \* actual_bet_percentage divides by weekly_bankroll
             IF RIsZero(weekly_bankroll_) THEN Raise("ZeroDivisionError")
             ELSE Return([decision |-> "BET",
                          bet_amount |-> contract_info.actual_bet_amount,
                          bet_percentage |->
                              RMul(RDiv(contract_info.actual_bet_amount, weekly_bankroll_),
                                   Hundred),
                          ev_percentage |-> ev_percentage,
                          expected_profit |->
                              RMul(contract_info.actual_bet_amount, ev_per_dollar),
                          contracts_to_buy |-> contract_info.whole_contracts,
                          normalized_price |-> normalized_price,
                          target_bet_amount |-> target_bet_amount,
                          unused_amount |-> contract_info.unused_amount,
                          adjusted_price |-> contract_info.adjusted_price,
                          commission_per_contract |-> commission])

\* the Kelly formula with the win and loss probabilities exchanged
FullKellyFractionSwapped(b, p, q) == RDiv(RSub(RMul(b, q), p), b)

\* "full_kelly_fraction = (b * p - q) / b" (b # 0)
FullKellyFraction(b, p, q) == RDiv(RSub(RMul(b, p), q), b)

\* Step 3: the Kelly fraction and the negative-Kelly return
KellyStep(weekly_bankroll_, p, normalized_price, commission, adjusted_price, ev_per_dollar, ev_percentage) ==
    LET b == RSub(RDiv(One, adjusted_price), One)
        q == RSub(One, p)
    IN  IF RIsZero(b) THEN Raise("ZeroDivisionError")
        ELSE
          LET full_kelly_fraction == FullKellyFraction(b, p, q)
          IN  IF RLe(full_kelly_fraction, Zero)
              THEN \* kelly_without_commission: 1 / normalized_price, then / b_without
                   IF RIsZero(normalized_price) THEN Raise("ZeroDivisionError")
                   ELSE IF RIsZero(RSub(RDiv(One, normalized_price), One))
                   THEN Raise("ZeroDivisionError")
                   ELSE Return([decision |-> "NO BET",
                                reason |-> "Negative Kelly fraction",
                                ev_percentage |-> ev_percentage,
                                bet_amount |-> Zero,
                                normalized_price |-> normalized_price,
                                commission_per_contract |-> commission])
              ELSE SizeBet(weekly_bankroll_, normalized_price, commission,
                           ev_per_dollar, ev_percentage, full_kelly_fraction)

\* an adjusted price with the commission taken off the price
AdjustedPriceRebate(normalized_price, commission) == RSub(normalized_price, commission)

\* "adjusted_price = normalized_price + commission_per_contract"
AdjustedPrice(normalized_price, commission) == RAdd(normalized_price, commission)

user_input_betting_framework(weekly_bankroll_, model_win_percentage, contract_price, commission_per_contract, cm) ==
    LET commission == ResolveCommission(commission_per_contract, cm)
        win_probability == NormalizeWinPercentage(model_win_percentage)
        normalized_price == normalize_contract_price(contract_price)
        adjusted_price == AdjustedPrice(normalized_price, commission)
    IN  IF RIsZero(adjusted_price) THEN Raise("ZeroDivisionError")
        ELSE
          LET ev_per_dollar == RSub(RMul(win_probability, RDiv(One, adjusted_price)), One)
              ev_percentage == RMul(ev_per_dollar, Hundred)
          IN  IF RLt(ev_percentage, EV_THRESHOLD)
              THEN \* ev_without_commission divides by normalized_price
                   IF RIsZero(normalized_price) THEN Raise("ZeroDivisionError")
                   ELSE Return([decision |-> "NO BET",
                                reason |-> "EV below 10% Wharton threshold",
                                ev_percentage |-> ev_percentage,
                                bet_amount |-> Zero,
                                normalized_price |-> normalized_price,
                                commission_per_contract |-> commission])
              ELSE KellyStep(weekly_bankroll_, win_probability, normalized_price,
                             commission, adjusted_price, ev_per_dollar, ev_percentage)

----------------------------------------------------------------------------
(* Direct calls of the pure functions: specification SpecEval.              *)

\* denominator of the grid the probabilities and prices are drawn from
GridN == 20
\* largest whole-number (percent / cents format) input, in steps of GridStep
MaxWhole == 150
GridStep == 15

Grid == {R(k, GridN) : k \in 0..GridN}
WholeGrid == {R(k * GridStep, 1) : k \in 1..(MaxWhole \div GridStep)}

\* bankrolls: negative, zero, below one contract, small, usual
BankrollSet == {R(-100, 1), Zero, R(1, 2), R(1, 1), R(100, 1), R(1000, 1)}
\* win percentages: decimal grid, whole-number percents, the spec's scenarios
WinSet == Grid \cup WholeGrid \cup {R(68, 1), R(55, 1), R(80, 1), R(100, 1), R(-1, 2)}
\* prices: decimal grid, cents format, the spec's scenarios, 0.98 (+0.02 = 1)
PriceSet == Grid \cup WholeGrid \cup {R(48, 100), R(98, 100), R(27, 1), R(100, 1)}
\* commission_per_contract: omitted, the presets' rates, and a negative one
FeeSet == {None, Zero, R(2, 100), R(5, 100), R(10, 100), R(-2, 100)}
\* target amounts for calculate_whole_contracts
TargetSet == Grid \cup {R(-1, 1), R(1, 100), R(29, 100), R(3, 1), R(15, 1), R(150, 1)}

EvalCalls ==
    [fn : {"user_input_betting_framework"}, weekly_bankroll : BankrollSet,
     model_win_percentage : WinSet, contract_price : PriceSet,
     commission_per_contract : FeeSet]

SizeCalls ==
    [fn : {"calculate_whole_contracts"}, target_bet_amount : TargetSet,
     contract_price : Grid, commission_per_contract : FeeSet]

\* the CommissionManager right after import: Robinhood, $0.02
DefaultManager == [rate |-> R(2, 100), platform |-> "Robinhood"]

\* config/settings.py as the repository ships it
DefaultSettingsFile ==
    [exists |-> TRUE, writable |-> TRUE, rate |-> R(2, 100), platform |-> "Robinhood"]

\* "commission_manager = CommissionManager()" at import, with the shipped settings
ManagerImported ==
    /\ commission_manager = DefaultManager
    /\ shared_state = DefaultManager
    /\ settings_file = DefaultSettingsFile
    /\ instances = <<>>

\* the batch variables while no batch runs
NoBatch ==
    /\ pc = "idle"
    /\ weekly_bankroll = Zero
    /\ input_rows = <<>>
    /\ df = <<>>
    /\ index = 0
    /\ remaining_bankroll = Zero
    /\ cumulative_bet = Zero

batchVars == <<pc, weekly_bankroll, input_rows, df, index, remaining_bankroll,
               cumulative_bet>>

InitEval ==
    /\ call \in EvalCalls \cup SizeCalls
    /\ ret = Pending
    /\ ManagerImported
    /\ NoBatch

CallUserInputBettingFramework ==
    /\ call.fn = "user_input_betting_framework"
    /\ ret = Pending
    /\ ret' = user_input_betting_framework(call.weekly_bankroll, call.model_win_percentage,
                                           call.contract_price,
                                           call.commission_per_contract, commission_manager)
    /\ UNCHANGED <<call, managerVars, batchVars>>

CallCalculateWholeContracts ==
    /\ call.fn = "calculate_whole_contracts"
    /\ ret = Pending
    /\ ret' = calculate_whole_contracts(
                  call.target_bet_amount, call.contract_price,
                  ResolveCommission(call.commission_per_contract, commission_manager))
    /\ UNCHANGED <<call, managerVars, batchVars>>

NextEval == CallUserInputBettingFramework \/ CallCalculateWholeContracts

SpecEval == InitEval /\ [][NextEval]_vars

\* the calls a sheet of genuine contracts gives: a positive price, a win
\* probability within [0, 1], a commission >= 0; any bankroll
InitEvalPriced ==
    /\ InitEval
    /\ call.fn = "user_input_betting_framework"
       => /\ RGt(normalize_contract_price(call.contract_price), Zero)
          /\ RGe(call.model_win_percentage, Zero)
          /\ RLe(call.model_win_percentage, Hundred)
          /\ RGe(ResolveCommission(call.commission_per_contract, commission_manager),
                 Zero)

SpecEvalPriced == InitEvalPriced /\ [][NextEval]_vars

----------------------------------------------------------------------------
(* Claims about the direct calls (checked under SpecEval).                  *)

\* a call of user_input_betting_framework has completed
EvalDone == call.fn = "user_input_betting_framework" /\ ret # Pending
\* a call of calculate_whole_contracts has completed
SizeDone == call.fn = "calculate_whole_contracts" /\ ret # Pending
Returned == ret.exc = "None"

\* the adjusted price (normalized price + fee) of the call under evaluation
CallFee == ResolveCommission(call.commission_per_contract, commission_manager)
CallNormalizedPrice == normalize_contract_price(call.contract_price)
CallAdjustedPrice == RAdd(CallNormalizedPrice, CallFee)
CallWinProbability == NormalizeWinPercentage(call.model_win_percentage)
\* 100 * (p / adjusted - 1) compared with 10 without dividing: p ? 1.1 * adjusted
CallEvBelowFloor ==
    RLt(RMul(CallWinProbability, Hundred), RMul(R(110, 1), CallAdjustedPrice))
CallEvIsFloor ==
    RMul(CallWinProbability, Hundred) = RMul(R(110, 1), CallAdjustedPrice)

\* C3: for a bankroll > 0, a BET result has bet_amount <= 15% of the bankroll and
\* contracts_to_buy an integer >= 1; whole-contract rounding only lowers the stake
\* (bet_amount <= target_bet_amount <= 15% of the bankroll).
C3_BetWithinCap ==
    (EvalDone /\ RGt(call.weekly_bankroll, Zero) /\ Returned
        /\ ret.value.decision = "BET")
    => /\ RLe(ret.value.bet_amount, RMul(R(15, 100), call.weekly_bankroll))
       /\ ret.value.contracts_to_buy \in Nat
       /\ ret.value.contracts_to_buy >= 1
       /\ RLe(ret.value.bet_amount, ret.value.target_bet_amount)
       /\ RLe(ret.value.target_bet_amount, RMul(R(15, 100), call.weekly_bankroll))

\* C3 witness: a BET whose target is the 15% cap and whose stake was rounded down
C3_Witness ==
    /\ EvalDone /\ Returned
    /\ RGt(call.weekly_bankroll, Zero)
    /\ ret.value.decision = "BET"
    /\ ret.value.target_bet_amount = RMul(R(15, 100), call.weekly_bankroll)
    /\ RLt(ret.value.bet_amount, ret.value.target_bet_amount)

\* C4 (as claimed): with adjusted price > 0, an EV below 10 gives NO BET with
\* bet_amount 0 and the EV-threshold reason; a BET has EV >= 10; an EV of exactly
\* 10 is not rejected by the floor.
C4_EvFloorStrict ==
    (EvalDone /\ RGt(CallAdjustedPrice, Zero))
    => /\ CallEvBelowFloor
          => /\ Returned
             /\ ret.value.decision = "NO BET"
             /\ ret.value.bet_amount = Zero
             /\ ret.value.reason = "EV below 10% Wharton threshold"
       /\ (Returned /\ ret.value.decision = "BET")
          => RGe(ret.value.ev_percentage, EV_THRESHOLD)
       /\ (Returned /\ CallEvIsFloor)
          => Get(ret.value, "reason", "") # "EV below 10% Wharton threshold"

\* C5: for target >= 0 and adjusted price > 0, whole_contracts is the largest
\* integer n >= 0 with n * adjusted_price <= target; it is >= 1 exactly when
\* target >= adjusted_price, it is 0 with actual_bet_amount 0 when target <
\* adjusted_price, and unused_amount < adjusted_price.
C5_LargestWholeContracts ==
    (SizeDone /\ RGe(call.target_bet_amount, Zero)
        /\ RGt(RAdd(call.contract_price, CallFee), Zero))
    => LET adjusted == RAdd(call.contract_price, CallFee)
           n == ret.value.whole_contracts
       IN  /\ Returned
           /\ n \in Nat
           /\ RLe(RMul(FromInt(n), adjusted), call.target_bet_amount)
           /\ RGt(RMul(FromInt(n + 1), adjusted), call.target_bet_amount)
           /\ (n >= 1) <=> RGe(call.target_bet_amount, adjusted)
           /\ RLt(call.target_bet_amount, adjusted)
              => (n = 0 /\ ret.value.actual_bet_amount = Zero)
           /\ RLt(ret.value.unused_amount, adjusted)

\* C5 witness: several whole contracts bought and a positive remainder left
C5_Witness ==
    /\ SizeDone /\ Returned
    /\ RGt(RAdd(call.contract_price, CallFee), Zero)
    /\ ret.value.whole_contracts >= 2
    /\ RGt(ret.value.unused_amount, Zero)

\* C6: for target >= 0 and adjusted price > 0, calculate_whole_contracts gives
\* actual_bet_amount + unused_amount = target_bet_amount, 0 <= actual <= target
\* and unused >= 0; every BET result of user_input_betting_framework has
\* bet_amount + unused_amount = target_bet_amount.
C6_Conservation ==
    /\ (SizeDone /\ RGe(call.target_bet_amount, Zero)
          /\ RGt(RAdd(call.contract_price, CallFee), Zero))
       => /\ Returned
          /\ RAdd(ret.value.actual_bet_amount, ret.value.unused_amount)
               = call.target_bet_amount
          /\ RGe(ret.value.actual_bet_amount, Zero)
          /\ RLe(ret.value.actual_bet_amount, call.target_bet_amount)
          /\ RGe(ret.value.unused_amount, Zero)
    /\ (EvalDone /\ Returned /\ ret.value.decision = "BET")
       => RAdd(ret.value.bet_amount, ret.value.unused_amount)
            = ret.value.target_bet_amount

\* C6 witness: a BET result that spends part of its target and leaves the rest
C6_Witness ==
    /\ EvalDone /\ Returned
    /\ ret.value.decision = "BET"
    /\ RGt(ret.value.bet_amount, Zero)
    /\ RGt(ret.value.unused_amount, Zero)

\* C7 (as claimed): with adjusted price > 0, a zero or negative bankroll raises
\* nothing and returns NO BET with bet_amount 0; no result has a negative
\* contracts_to_buy or a negative bet_amount.
C7_NonPositiveBankrollNoBet ==
    (EvalDone /\ RGt(CallAdjustedPrice, Zero))
    => /\ RLe(call.weekly_bankroll, Zero)
          => /\ Returned
             /\ ret.value.decision = "NO BET"
             /\ ret.value.bet_amount = Zero
       /\ Returned
          => /\ Get(ret.value, "contracts_to_buy", 0) >= 0
             /\ RGe(ret.value.bet_amount, Zero)

\* C8 (as claimed): with adjusted price > 0 no branch divides by zero.
C8_NoDivisionByZero ==
    (EvalDone /\ RGt(CallAdjustedPrice, Zero)) => ret.exc # "ZeroDivisionError"

----------------------------------------------------------------------------
(* excel_processor.py: apply_bankroll_allocation, one loop iteration per    *)
(* step.  A row is a record of the columns the allocation reads or writes.  *)
(* 'Final Recommendation' of a partial bet is f'PARTIAL BET (${..:.2f})';   *)
(* the model keeps the status "PARTIAL BET" and the amount in               *)
(* Cumulative_Bet_Amount.                                                   *)

PARTIAL_THRESHOLD == R(1, 100)

\* mutant of CanAffordFull: the comparison is the wrong way round
CanAffordFullSwapped(bet_amount, remaining) == RGe(bet_amount, remaining)

\* "if bet_amount <= remaining_bankroll"
CanAffordFull(bet_amount, remaining) == RLe(bet_amount, remaining)

\* mutant of PartialAllowed: exactly 1% of the bankroll is not enough
PartialAllowedStrict(remaining, weekly_bankroll_) ==
    RGt(remaining, RMul(weekly_bankroll_, PARTIAL_THRESHOLD))

\* "if remaining_bankroll >= (weekly_bankroll * 0.01)"
PartialAllowed(remaining, weekly_bankroll_) ==
    RGe(remaining, RMul(weekly_bankroll_, PARTIAL_THRESHOLD))

\* mutant of PartialAmount: a partial bet is given the row's whole Bet Amount
PartialAmountWholeBet(bet_amount, remaining) == bet_amount

\* the amount of a partial bet: float(remaining_bankroll)
PartialAmount(bet_amount, remaining) == remaining

\* the body of "for index, row in df.iterrows()": the row as rewritten and the
\* locals after the iteration
\* the full bet added to the budget instead of taken from it
RemainingAfterFullAdded(bet_amount, remaining) == RAdd(remaining, bet_amount)

\* "remaining_bankroll -= bet_amount"
RemainingAfterFull(bet_amount, remaining) == RSub(remaining, bet_amount)

\* a skip that also empties the budget, as the partial branch does
SkipTooSmallEmptiesBudget(row, remaining, cumulative) ==
    [row |-> [row EXCEPT !.Final_Recommendation = "SKIP - Insufficient Bankroll",
                         !.Cumulative_Bet_Amount = Zero],
     remaining |-> Zero,
     cumulative |-> cumulative]

\* "else:" of "if remaining_bankroll >= (weekly_bankroll * 0.01)": the row is
\* skipped and remaining_bankroll is not assigned
SkipTooSmall(row, remaining, cumulative) ==
    [row |-> [row EXCEPT !.Final_Recommendation = "SKIP - Insufficient Bankroll",
                         !.Cumulative_Bet_Amount = Zero],
     remaining |-> remaining,
     cumulative |-> cumulative]

\* a pass-through that books the row's 'Bet Amount' against the budget
PassThroughCharged(row, remaining, cumulative) ==
    [row |-> [row EXCEPT !.Final_Recommendation = row.Decision,
                         !.Cumulative_Bet_Amount = Zero],
     remaining |-> RSub(remaining, row.Bet_Amount),
     cumulative |-> cumulative]

\* "else:" of "if row['Decision'] == 'BET'"
PassThrough(row, remaining, cumulative) ==
    [row |-> [row EXCEPT !.Final_Recommendation = row.Decision,
                         !.Cumulative_Bet_Amount = Zero],
     remaining |-> remaining,
     cumulative |-> cumulative]

\* a partial bet that leaves the budget as it was
RemainingAfterPartialKept(remaining) == remaining

\* "remaining_bankroll = 0" after a partial bet
RemainingAfterPartial(remaining) == Zero

AllocateStep(row, weekly_bankroll_, remaining, cumulative) ==
    IF row.Decision = "BET"
    THEN IF RGt(remaining, Zero)
         THEN LET bet_amount == row.Bet_Amount
              IN  IF CanAffordFull(bet_amount, remaining)
                  THEN [row |-> [row EXCEPT !.Final_Recommendation = "BET",
                                            !.Cumulative_Bet_Amount = bet_amount],
                        remaining |-> RemainingAfterFull(bet_amount, remaining),
                        cumulative |-> RAdd(cumulative, bet_amount)]
                  ELSE IF PartialAllowed(remaining, weekly_bankroll_)
                  THEN [row |-> [row EXCEPT !.Final_Recommendation = "PARTIAL BET",
                                            !.Cumulative_Bet_Amount =
                                                PartialAmount(bet_amount, remaining)],
                        remaining |-> RemainingAfterPartial(remaining),
                        cumulative |-> RAdd(cumulative, remaining)]
                  ELSE SkipTooSmall(row, remaining, cumulative)
         ELSE [row |-> [row EXCEPT
                          !.Final_Recommendation = "SKIP - Insufficient Bankroll",
                          !.Cumulative_Bet_Amount = Zero],
               remaining |-> remaining,
               cumulative |-> cumulative]
    ELSE PassThrough(row, remaining, cumulative)

\* entry of apply_bankroll_allocation(df, weekly_bankroll)
AllocateEnter ==
    /\ pc = "call_allocate"
    /\ remaining_bankroll' = weekly_bankroll
    /\ cumulative_bet' = Zero
    /\ index' = 1
    /\ pc' = "allocate"
    /\ UNCHANGED <<call, ret, managerVars, weekly_bankroll, input_rows, df>>

\* one iteration of the loop
AllocateRow ==
    /\ pc = "allocate"
    /\ index <= Len(df)
    /\ LET step == AllocateStep(df[index], weekly_bankroll, remaining_bankroll,
                                cumulative_bet)
       IN  /\ df' = [df EXCEPT ![index] = step.row]
           /\ remaining_bankroll' = step.remaining
           /\ cumulative_bet' = step.cumulative
    /\ index' = index + 1
    /\ UNCHANGED <<call, ret, managerVars, pc, weekly_bankroll, input_rows>>

\* "return df"
AllocateReturn ==
    /\ pc = "allocate"
    /\ index > Len(df)
    /\ pc' = "done"
    /\ UNCHANGED <<call, ret, managerVars, weekly_bankroll, input_rows, df,
                   index, remaining_bankroll, cumulative_bet>>

----------------------------------------------------------------------------
(* Direct calls of apply_bankroll_allocation: specification SpecAlloc.      *)

\* longest DataFrame handed to apply_bankroll_allocation
MaxRows == 3

\* bankrolls: negative, zero, usual
AllocBankrollSet == {R(-100, 1), Zero, R(100, 1)}
\* 'Bet Amount' of BET rows; with bankroll 100: 99 leaves exactly 1%, 99.5 leaves
\* less than 1%, 60 + 60 overdraws, 0.5 fits in what 99.5 leaves
BetAmountSet == {R(-5, 1), Zero, R(1, 2), R(40, 1), R(60, 1), R(99, 1), R(199, 2)}

NewRow(game, decision, ev, bet_amount, contracts, adjusted_price) ==
    [Game |-> game, Decision |-> decision, EV_Percentage |-> ev, Bet_Amount |-> bet_amount,
     Contracts_To_Buy |-> contracts, Adjusted_Price |-> adjusted_price,
     Final_Recommendation |-> "", Cumulative_Bet_Amount |-> Zero]

AllocRowSet ==
    {NewRow(0, "BET", Zero, a, 0, Zero) : a \in BetAmountSet}
    \cup {NewRow(0, "NO BET", Zero, a, 0, Zero) : a \in {Zero, R(60, 1)}}

SeqsUpTo(S, k) == UNION {[1..m -> S] : m \in 0..k}

InitAlloc ==
    /\ call = [fn |-> "apply_bankroll_allocation"]
    /\ ret = Pending
    /\ ManagerImported
    /\ pc = "call_allocate"
    /\ weekly_bankroll \in AllocBankrollSet
    /\ input_rows = <<>>
    /\ df \in SeqsUpTo(AllocRowSet, MaxRows)
    /\ index = 0
    /\ remaining_bankroll = Zero
    /\ cumulative_bet = Zero

NextAlloc == AllocateEnter \/ AllocateRow \/ AllocateReturn

SpecAlloc == InitAlloc /\ [][NextAlloc]_vars

----------------------------------------------------------------------------
(* Claims about apply_bankroll_allocation (checked under SpecAlloc).        *)

RECURSIVE SumCumulative(_)
SumCumulative(rows) ==
    IF rows = <<>> THEN Zero
    ELSE RAdd(rows[1].Cumulative_Bet_Amount, SumCumulative(Tail(rows)))

AllBetAmountsNonNegative == \A i \in 1..Len(df) : RGe(df[i].Bet_Amount, Zero)

\* C1: for weekly_bankroll >= 0 and rows whose 'Bet Amount' is >= 0, once
\* apply_bankroll_allocation has processed all rows the sum of 'Cumulative Bet
\* Amount' over all rows is <= weekly_bankroll.
C1_TotalWithinBankroll ==
    (pc = "done" /\ RGe(weekly_bankroll, Zero) /\ AllBetAmountsNonNegative)
    => RLe(SumCumulative(df), weekly_bankroll)

\* C1 witness: the bankroll is spent to the last cent and a later BET row is skipped
C1_Witness ==
    /\ pc = "done"
    /\ RGt(weekly_bankroll, Zero)
    /\ AllBetAmountsNonNegative
    /\ SumCumulative(df) = weekly_bankroll
    /\ \E i \in 1..Len(df) :
          /\ df[i].Final_Recommendation = "SKIP - Insufficient Bankroll"
          /\ RGt(df[i].Bet_Amount, Zero)

\* C2: the greedy rule, row by row.  remaining starts at weekly_bankroll; a BET row
\* is skipped (allocated 0) when remaining <= 0; is fully funded (status BET,
\* allocated = its Bet Amount, remaining decreased by it) when Bet Amount <=
\* remaining; otherwise is a PARTIAL BET with allocated = remaining and remaining
\* set to 0 when 100 * remaining >= the original bankroll (exactly 1% included);
\* otherwise is skipped with allocated 0.
C2_GreedyStep ==
    LET old == df[index]
        new == df'[index]
        bet == old.Bet_Amount
    IN  /\ new.Decision = old.Decision
        /\ new.Bet_Amount = bet
        /\ IF RLe(remaining_bankroll, Zero)
           THEN /\ new.Final_Recommendation = "SKIP - Insufficient Bankroll"
                /\ new.Cumulative_Bet_Amount = Zero
                /\ remaining_bankroll' = remaining_bankroll
           ELSE IF RLe(bet, remaining_bankroll)
           THEN /\ new.Final_Recommendation = "BET"
                /\ new.Cumulative_Bet_Amount = bet
                /\ RAdd(remaining_bankroll', bet) = remaining_bankroll
           ELSE IF RGe(RMul(Hundred, remaining_bankroll), weekly_bankroll)
           THEN /\ new.Final_Recommendation = "PARTIAL BET"
                /\ new.Cumulative_Bet_Amount = remaining_bankroll
                /\ remaining_bankroll' = Zero
           ELSE /\ new.Final_Recommendation = "SKIP - Insufficient Bankroll"
                /\ new.Cumulative_Bet_Amount = Zero
                /\ remaining_bankroll' = remaining_bankroll

C2_GreedyRule ==
    [][/\ pc = "call_allocate" => remaining_bankroll' = weekly_bankroll
       /\ (pc = "allocate" /\ index <= Len(df) /\ df[index].Decision = "BET")
          => C2_GreedyStep]_vars

\* C2 witness: a partial bet made with exactly 1% of the original bankroll left
C2_Witness ==
    /\ pc \in {"allocate", "done"}
    /\ RGt(weekly_bankroll, Zero)
    /\ \E i \in 1..Len(df) :
          /\ df[i].Final_Recommendation = "PARTIAL BET"
          /\ RMul(Hundred, df[i].Cumulative_Bet_Amount) = weekly_bankroll

\* C9: after apply_bankroll_allocation every row's 'Cumulative Bet Amount' is <=
\* its own 'Bet Amount' (rows with Bet Amount >= 0), and is 0 for every row whose
\* final status is a SKIP or whose Decision is not BET.
C9_AllocationWithinOwnBet ==
    pc = "done"
    => \A i \in 1..Len(df) :
          /\ RGe(df[i].Bet_Amount, Zero)
             => RLe(df[i].Cumulative_Bet_Amount, df[i].Bet_Amount)
          /\ (df[i].Final_Recommendation = "SKIP - Insufficient Bankroll"
                \/ df[i].Decision # "BET")
             => df[i].Cumulative_Bet_Amount = Zero

\* C9 witness: a partial bet below its own Bet Amount, a skipped BET row and a
\* NO BET row carrying a Bet Amount
C9_Witness ==
    /\ pc = "done"
    /\ \E i \in 1..Len(df) :
          /\ df[i].Final_Recommendation = "PARTIAL BET"
          /\ RGt(df[i].Cumulative_Bet_Amount, Zero)
          /\ RLt(df[i].Cumulative_Bet_Amount, df[i].Bet_Amount)
    /\ \E i \in 1..Len(df) :
          \/ /\ df[i].Final_Recommendation = "SKIP - Insufficient Bankroll"
             /\ RGt(df[i].Bet_Amount, Zero)
          \/ /\ df[i].Decision = "NO BET"
             /\ RGt(df[i].Bet_Amount, Zero)

----------------------------------------------------------------------------
(* excel_processor.py: process_betting_excel, from the rows read to the     *)
(* return of apply_bankroll_allocation (formatting and writing follow).     *)

\* a result_row whose 'Adjusted Price' column holds the price without the fee
ResultRowUnadjusted(game, result) ==
    NewRow(game, result.decision, RDiv(result.ev_percentage, Hundred),
           result.bet_amount, Get(result, "contracts_to_buy", 0),
           Get(result, "normalized_price", Zero))

\* the result_row built from one evaluation (the columns the allocation uses)
ResultRow(game, result) ==
    NewRow(game, result.decision, RDiv(result.ev_percentage, Hundred),
           result.bet_amount, Get(result, "contracts_to_buy", 0),
           Get(result, "adjusted_price", Zero))

\* one iteration of "for _, row in df.iterrows()": evaluate and append, or leave
\* through "except Exception" when the evaluation raises
EvaluateRow ==
    /\ pc = "evaluate"
    /\ index <= Len(input_rows)
    /\ LET row == input_rows[index]
           result == user_input_betting_framework(
                         weekly_bankroll, row.win_pct, row.contract_price,
                         get_commission_rate(commission_manager), commission_manager)
       IN  IF result.exc = "None"
           THEN /\ df' = Append(df, ResultRow(index, result.value))
                /\ index' = index + 1
                /\ pc' = pc
           ELSE /\ pc' = "error"
                /\ UNCHANGED <<df, index>>
    /\ UNCHANGED <<call, ret, managerVars, weekly_bankroll, input_rows,
                   remaining_bankroll, cumulative_bet>>

InsertAt(s, k, r) == SubSeq(s, 1, k - 1) \o <<r>> \o SubSeq(s, k, Len(s))

\* the places where r may go into s, sorted by descending EV, keeping it sorted
DescendingInserts(s, r) ==
    {InsertAt(s, k, r) :
        k \in {k \in 1..(Len(s) + 1) :
                 /\ \A j \in 1..(k - 1) : RGe(s[j].EV_Percentage, r.EV_Percentage)
                 /\ \A j \in k..Len(s) : RGe(r.EV_Percentage, s[j].EV_Percentage)}}

\* the places where r may go into s, sorted by ascending EV, keeping it sorted
AscendingInserts(s, r) ==
    {InsertAt(s, k, r) :
        k \in {k \in 1..(Len(s) + 1) :
                 /\ \A j \in 1..(k - 1) : RLe(s[j].EV_Percentage, r.EV_Percentage)
                 /\ \A j \in k..Len(s) : RLe(r.EV_Percentage, s[j].EV_Percentage)}}

\* mutant of SortOutcomes: ascending=True
RECURSIVE SortOutcomesAscending(_)
SortOutcomesAscending(rows) ==
    IF rows = <<>> THEN {<<>>}
    ELSE UNION {AscendingInserts(s, rows[Len(rows)]) :
                    s \in SortOutcomesAscending(SubSeq(rows, 1, Len(rows) - 1))}

\* results_df.sort_values('EV Percentage', ascending=False).reset_index(drop=True):
\* the rows by descending EV; the default sort kind (quicksort) does not promise an
\* order among equal EVs, so every order of ties is an outcome
RECURSIVE SortOutcomes(_)
SortOutcomes(rows) ==
    IF rows = <<>> THEN {<<>>}
    ELSE UNION {DescendingInserts(s, rows[Len(rows)]) :
                    s \in SortOutcomes(SubSeq(rows, 1, Len(rows) - 1))}

\* after the loop: DataFrame(results), the sort, then the call of
\* apply_bankroll_allocation; an empty DataFrame has no 'EV Percentage' column and
\* sort_values raises KeyError, caught by "except Exception"
SortResults ==
    /\ pc = "evaluate"
    /\ index > Len(input_rows)
    /\ IF df = <<>>
       THEN pc' = "error" /\ df' = df
       ELSE pc' = "call_allocate" /\ df' \in SortOutcomes(df)
    /\ UNCHANGED <<call, ret, managerVars, weekly_bankroll, input_rows, index,
                   remaining_bankroll, cumulative_bet>>

\* most rows in a sheet
MaxBatchRows == 3

\* bankrolls typed at the prompt (float(input(..)), no validation)
BatchBankrollSet == {R(-100, 1), R(1, 1), R(100, 1)}
\* sheet rows: BET at 44.7% and 71.4% EV, NO BET, a cheap contract (BET at 16.7%
\* EV, affordable with bankroll 1), and price 0 whose NO BET diagnostics raise
BatchInputSet ==
    {[win_pct |-> R(68, 1), contract_price |-> R(45, 1)],
     [win_pct |-> R(72, 100), contract_price |-> R(40, 100)],
     [win_pct |-> R(55, 1), contract_price |-> R(52, 1)],
     [win_pct |-> R(35, 1000), contract_price |-> R(1, 100)],
     [win_pct |-> R(1, 100), contract_price |-> Zero]}

InitBatch ==
    /\ call = [fn |-> "process_betting_excel"]
    /\ ret = Pending
    /\ ManagerImported
    /\ pc = "evaluate"
    /\ weekly_bankroll \in BatchBankrollSet
    /\ input_rows \in SeqsUpTo(BatchInputSet, MaxBatchRows)
    /\ df = <<>>
    /\ index = 1
    /\ remaining_bankroll = Zero
    /\ cumulative_bet = Zero

NextBatch ==
    EvaluateRow \/ SortResults \/ AllocateEnter \/ AllocateRow \/ AllocateReturn

SpecBatch == InitBatch /\ [][NextBatch]_vars

----------------------------------------------------------------------------
(* Claims about the batch pipeline (checked under SpecBatch).               *)

Processed(row) == row.Final_Recommendation # ""

\* C10: in process_betting_excel the allocator sees the rows in non-increasing
\* 'EV Percentage' order: a row is processed only after every row with strictly
\* higher EV, and the rows with a positive allocation list their EVs in
\* non-increasing order.
C10_AllocationInEvOrder ==
    pc \in {"call_allocate", "allocate", "done"}
    => /\ \A i, j \in 1..Len(df) :
             i < j => RGe(df[i].EV_Percentage, df[j].EV_Percentage)
       /\ \A i, j \in 1..Len(df) :
             (Processed(df[i]) /\ RGt(df[j].EV_Percentage, df[i].EV_Percentage))
             => Processed(df[j])
       /\ \A i, j \in 1..Len(df) :
             (i < j /\ RGt(df[i].Cumulative_Bet_Amount, Zero)
                    /\ RGt(df[j].Cumulative_Bet_Amount, Zero))
             => RGe(df[i].EV_Percentage, df[j].EV_Percentage)

\* C10 witness: two funded rows of different EV, the higher one read later from
\* the sheet and funded first
C10_Witness ==
    /\ pc = "done"
    /\ \E i, j \in 1..Len(df) :
          /\ i < j
          /\ df[i].Game > df[j].Game
          /\ RGt(df[i].EV_Percentage, df[j].EV_Percentage)
          /\ RGt(df[i].Cumulative_Bet_Amount, Zero)
          /\ RGt(df[j].Cumulative_Bet_Amount, Zero)

----------------------------------------------------------------------------
(* Further claims about apply_bankroll_allocation (checked under SpecAlloc). *)

\* the loop is about to process df[index]
AtRow == pc = "allocate" /\ index <= Len(df)

\* the row at hand is a BET row that cannot be fully afforded while a positive
\* remainder below 1% of the original bankroll is left
TooSmallCase ==
    /\ AtRow
    /\ df[index].Decision = "BET"
    /\ RGt(remaining_bankroll, Zero)
    /\ ~RLe(df[index].Bet_Amount, remaining_bankroll)
    /\ RLt(RMul(Hundred, remaining_bankroll), weekly_bankroll)

\* a positive remainder below 1% of the original bankroll is left
BelowPartialThreshold ==
    /\ RGt(remaining_bankroll, Zero)
    /\ RLt(RMul(Hundred, remaining_bankroll), weekly_bankroll)

\* rows 1..index-1 have been processed; TRUE when some BET row was skipped while
\* a positive remainder was left and a later row was allocated a nonzero amount
AllocatedAfterSkip ==
    \E i, j \in 1..Len(df) :
        /\ i < j
        /\ j < index
        /\ df[i].Decision = "BET"
        /\ df[i].Final_Recommendation = "SKIP - Insufficient Bankroll"
        /\ RGt(RSub(weekly_bankroll, SumCumulative(SubSeq(df, 1, i - 1))), Zero)
        /\ ~RIsZero(df[j].Cumulative_Bet_Amount)

\* C11 as stated: when a BET row is skipped because it cannot be fully afforded
\* and remaining is below 1% of the original bankroll, no later row in the
\* sequence is allocated any amount (rows with Bet Amount >= 0, bankroll >= 0).
C11_NothingAllocatedAfterSkip ==
    (pc \in {"allocate", "done"} /\ AllBetAmountsNonNegative
       /\ RGe(weekly_bankroll, Zero))
    => ~AllocatedAfterSkip

\* C11 amended: the skip of a BET row that cannot be fully afforded while
\* remaining is below 1% of the original bankroll leaves remaining and the running
\* total untouched and allocates 0 to the row; while such a remainder is left
\* (Bet Amounts >= 0), a BET row is never a PARTIAL BET: it is fully funded when
\* its Bet Amount fits in the remainder and skipped with 0 otherwise, and the
\* remainder does not grow.
C11_SkipLeavesRemainder ==
    [][/\ TooSmallCase
          => /\ remaining_bankroll' = remaining_bankroll
             /\ cumulative_bet' = cumulative_bet
             /\ df'[index].Final_Recommendation = "SKIP - Insufficient Bankroll"
             /\ df'[index].Cumulative_Bet_Amount = Zero
       /\ (AtRow /\ BelowPartialThreshold /\ AllBetAmountsNonNegative
             /\ df[index].Decision = "BET")
          => /\ df'[index].Final_Recommendation # "PARTIAL BET"
             /\ IF RLe(df[index].Bet_Amount, remaining_bankroll)
                THEN /\ df'[index].Final_Recommendation = "BET"
                     /\ df'[index].Cumulative_Bet_Amount = df[index].Bet_Amount
                ELSE /\ df'[index].Final_Recommendation = "SKIP - Insufficient Bankroll"
                     /\ df'[index].Cumulative_Bet_Amount = Zero
             /\ RLe(remaining_bankroll', remaining_bankroll)
             /\ RGe(remaining_bankroll', Zero)]_vars

\* C11 witness: a BET row was skipped with a positive remainder below 1% left, and
\* a later BET row with a positive Bet Amount was then fully funded from it
C11_Witness ==
    /\ pc = "done"
    /\ AllBetAmountsNonNegative
    /\ RGt(weekly_bankroll, Zero)
    /\ \E i, j \in 1..Len(df) :
          /\ i < j
          /\ df[i].Decision = "BET"
          /\ df[i].Final_Recommendation = "SKIP - Insufficient Bankroll"
          /\ RGt(RSub(weekly_bankroll, SumCumulative(SubSeq(df, 1, i - 1))), Zero)
          /\ df[j].Final_Recommendation = "BET"
          /\ RGt(df[j].Cumulative_Bet_Amount, Zero)

\* C12: a row whose Decision is not BET passes through unchanged: its Final
\* Recommendation equals its Decision, its Cumulative Bet Amount is 0, its other
\* columns and the other rows keep their values, and the remaining budget (and the
\* running total) seen by later rows is the same as before that row, wherever the
\* row sits in the sequence.
C12_NonBetPassThrough ==
    [][(AtRow /\ df[index].Decision # "BET")
       => /\ df'[index] = [df[index] EXCEPT
                             !.Final_Recommendation = df[index].Decision,
                             !.Cumulative_Bet_Amount = Zero]
          /\ \A k \in 1..Len(df) : k # index => df'[k] = df[k]
          /\ Len(df') = Len(df)
          /\ remaining_bankroll' = remaining_bankroll
          /\ cumulative_bet' = cumulative_bet]_vars

\* C12 witness: a non-BET row carrying a positive Bet Amount sits between two BET
\* rows which together use the whole bankroll
C12_Witness ==
    /\ pc = "done"
    /\ RGt(weekly_bankroll, Zero)
    /\ \E i, j, k \in 1..Len(df) :
          /\ i < j /\ j < k
          /\ df[j].Decision # "BET"
          /\ RGt(df[j].Bet_Amount, Zero)
          /\ df[j].Final_Recommendation = df[j].Decision
          /\ RIsZero(df[j].Cumulative_Bet_Amount)
          /\ df[i].Final_Recommendation = "BET"
          /\ df[k].Final_Recommendation = "BET"
          /\ RAdd(df[i].Cumulative_Bet_Amount, df[k].Cumulative_Bet_Amount)
                = weekly_bankroll

\* C13: during apply_bankroll_allocation over rows with Bet Amount >= 0 and
\* bankroll >= 0, the remaining budget never increases from one row to the next
\* and never becomes negative; it always equals weekly_bankroll minus the sum of
\* the amounts allocated so far.
C13_RemainingBudget ==
    [][(pc \in {"call_allocate", "allocate"} /\ AllBetAmountsNonNegative
          /\ RGe(weekly_bankroll, Zero))
       => /\ pc = "allocate" => RLe(remaining_bankroll', remaining_bankroll)
          /\ RGe(remaining_bankroll', Zero)
          /\ remaining_bankroll' = RSub(weekly_bankroll, SumCumulative(df'))
          /\ cumulative_bet' = SumCumulative(df')]_vars

\* C13 witness: two rows were funded one after the other and part of the budget
\* is still left
C13_Witness ==
    /\ pc = "done"
    /\ AllBetAmountsNonNegative
    /\ RGt(remaining_bankroll, Zero)
    /\ RLt(remaining_bankroll, weekly_bankroll)
    /\ \E i, j \in 1..Len(df) :
          /\ i < j
          /\ RGt(df[i].Cumulative_Bet_Amount, Zero)
          /\ RGt(df[j].Cumulative_Bet_Amount, Zero)

----------------------------------------------------------------------------
(* Further claims about user_input_betting_framework (checked under SpecEval). *)

\* the result is the negative-Kelly NO BET
NegativeKellyReturned ==
    /\ Returned
    /\ ret.value.decision = "NO BET"
    /\ ret.value.reason = "Negative Kelly fraction"

\* the full Kelly fraction (b*p - q)/b of the call, from its adjusted price
\* (defined when the adjusted price is neither 0 nor 1)
CallFullKelly ==
    FullKellyFraction(RSub(RDiv(One, CallAdjustedPrice), One), CallWinProbability,
                      RSub(One, CallWinProbability))

\* C14 as stated: for every input with adjusted price > 0 whose ev_percentage is
\* >= 10.0, user_input_betting_framework never returns the negative-Kelly NO BET
\* (stated here for the calls with a bankroll > 0).
C14_NegativeKellyUnreachable ==
    (EvalDone /\ RGt(call.weekly_bankroll, Zero) /\ RGt(CallAdjustedPrice, Zero)
        /\ ~CallEvBelowFloor)
    => ~NegativeKellyReturned

\* C14 amended: for every input with 0 < adjusted price < 1 whose ev_percentage
\* is >= 10.0, the full Kelly fraction (b*p - q)/b computed from the adjusted price
\* is > 0 and user_input_betting_framework does not return the negative-Kelly
\* NO BET.
C14_PositiveKellyBelowOneDollar ==
    (EvalDone /\ RGt(CallAdjustedPrice, Zero) /\ RLt(CallAdjustedPrice, One)
        /\ ~CallEvBelowFloor)
    => /\ RGt(CallFullKelly, Zero)
       /\ ~NegativeKellyReturned

\* C14 witness: a BET at an EV of exactly 10% with a fee in the adjusted price
C14_Witness ==
    /\ EvalDone /\ Returned
    /\ RGt(CallFee, Zero)
    /\ RGt(CallAdjustedPrice, Zero) /\ RLt(CallAdjustedPrice, One)
    /\ CallEvIsFloor
    /\ ret.value.decision = "BET"
    /\ RGt(CallFullKelly, Zero)

----------------------------------------------------------------------------
(* Direct and repeated calls of normalize_contract_price: specification     *)
(* SpecNormalize.                                                            *)

\* whole-cent prices 1..99, as R(k, 1)
WholeCents == {R(k, 1) : k \in 1..99}

\* arguments of normalize_contract_price: the price grid, every whole-cent
\* price, prices next to 100 cents, and a negative price
NormalizeInputs ==
    PriceSet \cup WholeCents
        \cup {R(-1, 2), R(1, 100), R(99, 100), R(199, 2), R(9999, 100), R(201, 2)}

\* inner = None: normalize_contract_price(contract_price); otherwise the outer
\* call of normalize_contract_price(normalize_contract_price(inner))
NormalizeCalls ==
    [fn : {"normalize_contract_price"}, contract_price : NormalizeInputs, inner : {None}]

InitNormalize ==
    /\ call \in NormalizeCalls
    /\ ret = Pending
    /\ ManagerImported
    /\ NoBatch

CallNormalizeContractPrice ==
    /\ call.fn = "normalize_contract_price"
    /\ ret = Pending
    /\ ret' = Return(normalize_contract_price(call.contract_price))
    /\ UNCHANGED <<call, managerVars, batchVars>>

\* the returned price is handed to normalize_contract_price once more
CallNormalizeContractPriceAgain ==
    /\ call.fn = "normalize_contract_price"
    /\ ret # Pending
    /\ call.inner = None
    /\ call' = [call EXCEPT !.contract_price = ret.value,
                            !.inner = call.contract_price]
    /\ ret' = Return(normalize_contract_price(ret.value))
    /\ UNCHANGED <<managerVars, batchVars>>

NextNormalize == CallNormalizeContractPrice \/ CallNormalizeContractPriceAgain

SpecNormalize == InitNormalize /\ [][NextNormalize]_vars

\* normalize_contract_price(x) has returned, x = call.contract_price
NormalizeDone ==
    call.fn = "normalize_contract_price" /\ call.inner = None /\ ret # Pending
\* normalize_contract_price(normalize_contract_price(x)) has returned, x =
\* call.inner and normalize_contract_price(x) = call.contract_price
NormalizeTwiceDone ==
    call.fn = "normalize_contract_price" /\ call.inner # None /\ ret # Pending

\* the rule of the normalizer on the completed call: inputs >= 1.0 are divided by
\* 100, inputs < 1.0 are returned unchanged
NormalizeRule ==
    IF RGe(call.contract_price, One)
    THEN RMul(ret.value, Hundred) = call.contract_price
    ELSE ret.value = call.contract_price

\* C16 as stated: normalize_contract_price(x) <= 1.0 for all x >= 0, where inputs
\* >= 1.0 are divided by 100 and inputs < 1.0 are returned unchanged.
C16_NormalizedAtMostOne ==
    (NormalizeDone /\ RGe(call.contract_price, Zero))
    => /\ RLe(ret.value, One)
       /\ NormalizeRule

\* C16 amended: normalize_contract_price(x) <= 1.0 for all 0 <= x <= 100, where
\* inputs >= 1.0 (including exactly 1.0, which becomes 0.01) are divided by 100
\* and inputs < 1.0 are returned unchanged; the rule holds for every x >= 0, and
\* for x > 100 the result is above 1.0.
C16_NormalizedAtMostOneUpTo100 ==
    (NormalizeDone /\ RGe(call.contract_price, Zero))
    => /\ RLe(call.contract_price, Hundred) <=> RLe(ret.value, One)
       /\ NormalizeRule
       /\ call.contract_price = One => ret.value = R(1, 100)

\* C16 witness: the boundary input 1.0 has been normalized to 0.01
C16_Witness ==
    /\ NormalizeDone
    /\ call.contract_price = One
    /\ ret.value = R(1, 100)

\* C17 as stated: for every input x >= 0,
\* normalize_contract_price(normalize_contract_price(x)) = normalize_contract_price(x).
C17_NormalizeIdempotent ==
    (NormalizeTwiceDone /\ RGe(call.inner, Zero))
    => ret.value = call.contract_price

\* C17 amended: for every input 0 <= x < 100,
\* normalize_contract_price(normalize_contract_price(x)) = normalize_contract_price(x);
\* for x >= 100 the first result is >= 1.0 and the second call divides it by 100
\* again.
C17_NormalizeIdempotentBelow100 ==
    (NormalizeTwiceDone /\ RGe(call.inner, Zero))
    => IF RLt(call.inner, Hundred)
       THEN ret.value = call.contract_price
       ELSE RMul(ret.value, Hundred) = call.contract_price

\* C17 witness: a cents-format price was normalized twice and the second call
\* returned what it was given
C17_Witness ==
    /\ NormalizeTwiceDone
    /\ RGe(call.inner, One) /\ RLt(call.inner, Hundred)
    /\ RMul(call.contract_price, Hundred) = call.inner
    /\ ret.value = call.contract_price

----------------------------------------------------------------------------
(* The same bet entered in both input formats: specification SpecDual.      *)

\* whole-number win percentages 1..100, as R(k, 1)
WholePercents == {R(k, 1) : k \in 1..100}

\* dual_format_input_example with the bet as parameters: win_pct and price are the
\* whole-number forms (68, 45); the decimal forms are win_pct / 100 and price / 100
DualFormatCalls ==
    [fn : {"dual_format_input_example"},
     bankroll : {R(1, 1), R(100, 1)},
     win_pct : WholePercents, price : WholeCents,
     commission_per_contract : {None, Zero, R(5, 100)}]

InitDual ==
    /\ call \in DualFormatCalls
    /\ ret = Pending
    /\ ManagerImported
    /\ NoBatch

\* the loop over formats: percentage and cents, decimal and dollars, percentage
\* and dollars; the results are kept side by side
CallDualFormat ==
    /\ call.fn = "dual_format_input_example"
    /\ ret = Pending
    /\ ret' = Return(
          [whole |-> user_input_betting_framework(
                         call.bankroll, call.win_pct, call.price,
                         call.commission_per_contract, commission_manager),
           decimal |-> user_input_betting_framework(
                         call.bankroll, RDiv(call.win_pct, Hundred),
                         RDiv(call.price, Hundred),
                         call.commission_per_contract, commission_manager),
           mixed |-> user_input_betting_framework(
                         call.bankroll, call.win_pct, RDiv(call.price, Hundred),
                         call.commission_per_contract, commission_manager)])
    /\ UNCHANGED <<call, managerVars, batchVars>>

NextDual == CallDualFormat

SpecDual == InitDual /\ [][NextDual]_vars

DualDone == call.fn = "dual_format_input_example" /\ ret # Pending

\* two results agree on decision, ev_percentage, contracts_to_buy and bet_amount
\* (contracts_to_buy is absent from the EV-threshold NO BET)
SameBet(r1, r2) ==
    /\ r1.exc = r2.exc
    /\ r1.exc = "None"
       => /\ r1.value.decision = r2.value.decision
          /\ r1.value.ev_percentage = r2.value.ev_percentage
          /\ Get(r1.value, "contracts_to_buy", -1) = Get(r2.value, "contracts_to_buy", -1)
          /\ r1.value.bet_amount = r2.value.bet_amount

----------------------------------------------------------------------------
(* The same bet evaluated at two commissions: specification SpecFees.       *)

\* commissions compared: a negative one, none, the platforms' rates and the
\* rates of the integration tests
ComparedFees == {R(-2, 100), Zero, R(1, 100), R(2, 100), R(5, 100), R(10, 100)}

\* the bet evaluated at low_fee and at high_fee, low_fee <= high_fee
FeeComparisonCalls ==
    {c \in [fn : {"commission_comparison"},
            weekly_bankroll : {R(-100, 1), R(1, 1), R(100, 1), R(1000, 1)},
            model_win_percentage : Grid \cup {R(68, 1), R(55, 1), R(150, 1), R(-1, 2)},
            contract_price : Grid \cup {R(45, 1), R(48, 100), R(27, 1)},
            low_fee : ComparedFees, high_fee : ComparedFees] :
        RLe(c.low_fee, c.high_fee)}

InitFees ==
    /\ call \in FeeComparisonCalls
    /\ ret = Pending
    /\ ManagerImported
    /\ NoBatch

\* one evaluation per commission, the results kept side by side
CallCommissionComparison ==
    /\ call.fn = "commission_comparison"
    /\ ret = Pending
    /\ ret' = Return(
          [low |-> user_input_betting_framework(
                       call.weekly_bankroll, call.model_win_percentage,
                       call.contract_price, call.low_fee, commission_manager),
           high |-> user_input_betting_framework(
                       call.weekly_bankroll, call.model_win_percentage,
                       call.contract_price, call.high_fee, commission_manager)])
    /\ UNCHANGED <<call, managerVars, batchVars>>

NextFees == CallCommissionComparison

SpecFees == InitFees /\ [][NextFees]_vars

FeesDone == call.fn = "commission_comparison" /\ ret # Pending
AtLowFee == ret.value.low
AtHighFee == ret.value.high
IsBet(r) == r.exc = "None" /\ r.value.decision = "BET"

\* a genuine contract: win probability within [0, 1], price > 0, commissions >= 0
GenuineContract ==
    /\ RGe(NormalizeWinPercentage(call.model_win_percentage), Zero)
    /\ RLe(NormalizeWinPercentage(call.model_win_percentage), One)
    /\ RGt(call.contract_price, Zero)
    /\ RGe(call.low_fee, Zero)

\* C19 as stated: for fixed bankroll > 0, win probability <= 1 and price, and fees
\* f1 <= f2, ev_percentage at f1 >= ev_percentage at f2, and if
\* user_input_betting_framework returns BET at fee f2 it also returns BET at f1
\* (stated here for the calls with a price > 0).
C19_LowerFeeNeverWorse ==
    (FeesDone /\ RGt(call.weekly_bankroll, Zero)
        /\ RLe(NormalizeWinPercentage(call.model_win_percentage), One)
        /\ RGt(call.contract_price, Zero))
    => /\ (AtLowFee.exc = "None" /\ AtHighFee.exc = "None")
          => RGe(AtLowFee.value.ev_percentage, AtHighFee.value.ev_percentage)
       /\ IsBet(AtHighFee) => IsBet(AtLowFee)

\* C19 amended: for fixed bankroll > 0, win probability within [0, 1], price > 0
\* and fees 0 <= f1 <= f2, both evaluations return, ev_percentage at f1 >=
\* ev_percentage at f2, and if user_input_betting_framework returns BET at fee f2
\* it also returns BET at fee f1.
C19_LowerFeeNeverWorseGenuine ==
    (FeesDone /\ RGt(call.weekly_bankroll, Zero) /\ GenuineContract)
    => /\ AtLowFee.exc = "None" /\ AtHighFee.exc = "None"
       /\ RGe(AtLowFee.value.ev_percentage, AtHighFee.value.ev_percentage)
       /\ IsBet(AtHighFee) => IsBet(AtLowFee)

\* C19 witness: a BET at both commissions with a strictly higher EV at the lower
\* one, on a genuine contract
C19_Witness ==
    /\ FeesDone /\ RGt(call.weekly_bankroll, Zero) /\ GenuineContract
    /\ RLt(call.low_fee, call.high_fee)
    /\ IsBet(AtHighFee) /\ IsBet(AtLowFee)
    /\ RGt(AtLowFee.value.ev_percentage, AtHighFee.value.ev_percentage)

\* C20 as stated: for fixed bankroll, win probability and price, and fees f1 <= f2
\* for which both evaluations return BET, the bet_amount at f1 is at least the
\* bet_amount at f2 minus 0.50 dollars (stated here for genuine contracts and a
\* bankroll > 0).
C20_BetAmountWithinHalfDollar ==
    (FeesDone /\ RGt(call.weekly_bankroll, Zero) /\ GenuineContract
        /\ IsBet(AtLowFee) /\ IsBet(AtHighFee))
    => RGe(AtLowFee.value.bet_amount,
           RSub(AtHighFee.value.bet_amount, R(1, 2)))

\* C20 amended: for fixed bankroll > 0, win probability within [0, 1], price > 0
\* and fees 0 <= f1 <= f2 for which both evaluations return BET, the target bet
\* amount and the number of contracts at f1 are at least those at f2, and the
\* bet_amount at f1 is more than the bet_amount at f2 minus the cost of one
\* contract at f1 (price + f1, below one dollar).
C20_BetAmountWithinOneContract ==
    (FeesDone /\ RGt(call.weekly_bankroll, Zero) /\ GenuineContract
        /\ IsBet(AtLowFee) /\ IsBet(AtHighFee))
    => /\ RGe(AtLowFee.value.target_bet_amount, AtHighFee.value.target_bet_amount)
       /\ AtLowFee.value.contracts_to_buy >= AtHighFee.value.contracts_to_buy
       /\ RGt(AtLowFee.value.bet_amount,
              RSub(AtHighFee.value.bet_amount, AtLowFee.value.adjusted_price))
       /\ RLt(AtLowFee.value.adjusted_price, One)

\* C20 witness: both commissions give a BET of the same number of contracts, and
\* the bet at the lower commission is more than 0.50 below the other
C20_Witness ==
    /\ FeesDone /\ RGt(call.weekly_bankroll, Zero) /\ GenuineContract
    /\ IsBet(AtLowFee) /\ IsBet(AtHighFee)
    /\ AtLowFee.value.contracts_to_buy = AtHighFee.value.contracts_to_buy
    /\ RLt(AtLowFee.value.bet_amount, RSub(AtHighFee.value.bet_amount, R(1, 2)))

----------------------------------------------------------------------------
(* A session of the application: the commission settings are changed and    *)
(* bets are evaluated, in any order: specification SpecSession.             *)

\* a rate argument that is not a number
NotANumber == [str |-> "abc"]

\* rate arguments of set_commission_rate: the bounds, rates in between, rates
\* outside [0, 1] and a string
RateArgs == {Zero, R(3, 100), R(5, 100), One, R(-1, 100), R(3, 2), NotANumber}
\* platform_name arguments of set_commission_rate
CustomNameArgs == {"Custom", "TestPlatform"}
\* platform_name arguments of set_platform: the presets and an unknown platform
PlatformArgs == DOMAIN PLATFORM_PRESETS \cup {"Unknown"}

\* config/settings.py when the application starts: as shipped, left behind by an
\* earlier run, read-only, or missing
InitialSettingsFiles ==
    {DefaultSettingsFile,
     [exists |-> TRUE, writable |-> TRUE, rate |-> R(10, 100), platform |-> "PredictIt"],
     [exists |-> TRUE, writable |-> FALSE, rate |-> R(2, 100), platform |-> "Robinhood"],
     [exists |-> FALSE, writable |-> FALSE, rate |-> None, platform |-> ""]}

\* the evaluations of a session
SessionEvalCalls ==
    [fn : {"user_input_betting_framework"}, weekly_bankroll : {R(100, 1)},
     model_win_percentage : {R(68, 1), R(65, 1), R(1, 2)},
     contract_price : {R(45, 100), R(40, 100)},
     commission_per_contract : {None, Zero, R(5, 100)}]

\* the module is imported: CommissionManager() finds no shared state, loads the
\* settings file and publishes what it loaded as the shared state
InitSession ==
    /\ call = [fn |-> "import"]
    /\ ret = Return(None)
    /\ settings_file \in InitialSettingsFiles
    /\ commission_manager = load_settings(settings_file)
    /\ shared_state = commission_manager
    /\ instances = <<>>
    /\ NoBatch

\* the tail of the three setters: the instance, the shared state and the file
InstallSettings(new) ==
    /\ commission_manager' = new
    /\ shared_state' = new
    /\ settings_file' = save_settings(settings_file, new)
    /\ instances' = instances

\* commission_manager.set_commission_rate(rate, platform_name)
SetCommissionRate ==
    /\ pc = "idle"
    /\ \E rate \in RateArgs, platform_name \in CustomNameArgs :
          /\ call' = [fn |-> "set_commission_rate", rate |-> rate,
                      platform_name |-> platform_name]
          /\ IF validate_commission_rate(rate) = "None"
             THEN /\ InstallSettings([rate |-> rate, platform |-> platform_name])
                  /\ ret' = Return(None)
             ELSE /\ ret' = Raise(validate_commission_rate(rate))
                  /\ UNCHANGED managerVars
    /\ UNCHANGED batchVars

\* commission_manager.set_platform(platform_name)
SetPlatform ==
    /\ pc = "idle"
    /\ \E platform_name \in PlatformArgs :
          /\ call' = [fn |-> "set_platform", platform_name |-> platform_name]
          /\ IF platform_name \notin DOMAIN PLATFORM_PRESETS \/ platform_name = "Custom"
             THEN /\ ret' = Raise("ValueError")
                  /\ UNCHANGED managerVars
             ELSE /\ InstallSettings([rate |-> PLATFORM_PRESETS[platform_name],
                                      platform |-> platform_name])
                  /\ ret' = Return(None)
    /\ UNCHANGED batchVars

\* commission_manager.reset_to_default()
ResetToDefault ==
    /\ pc = "idle"
    /\ call' = [fn |-> "reset_to_default"]
    /\ InstallSettings([rate |-> DEFAULT_COMMISSION_RATE, platform |-> DEFAULT_PLATFORM])
    /\ ret' = Return(None)
    /\ UNCHANGED batchVars

\* user_input_betting_framework(...) called in the session
SessionEvaluate ==
    /\ pc = "idle"
    /\ \E c \in SessionEvalCalls :
          /\ call' = c
          /\ ret' = user_input_betting_framework(
                        c.weekly_bankroll, c.model_win_percentage, c.contract_price,
                        c.commission_per_contract, commission_manager)
    /\ UNCHANGED <<managerVars, batchVars>>

NextSession == SetCommissionRate \/ SetPlatform \/ ResetToDefault \/ SessionEvaluate

SpecSession == InitSession /\ [][NextSession]_vars

----------------------------------------------------------------------------
(* Claims about the session (checked under SpecSession).                    *)

\* states of the CommissionManager an evaluation is compared across: every rate
\* the setters accept here, under a preset's name and under a custom name
ManagerStates ==
    [rate : {r \in RateArgs : validate_commission_rate(r) = "None"}
                \cup {R(2, 100), R(10, 100)},
     platform : {"Robinhood", "TestPlatform"}]

\* the step is an evaluation / a call of a setter (call' names what was called)
EvaluationStep == call'.fn = "user_input_betting_framework"
SetterStep == call'.fn \in {"set_commission_rate", "set_platform", "reset_to_default"}

\* the rate a successful call of the setter named by call' asks for
RequestedRate ==
    CASE call'.fn = "set_commission_rate" -> call'.rate
      [] call'.fn = "set_platform" -> PLATFORM_PRESETS[call'.platform_name]
      [] call'.fn = "reset_to_default" -> DEFAULT_COMMISSION_RATE

\* the returned result was computed with the fee: it reports the fee, and its
\* ev_percentage is 100 * (p / (normalized price + fee) - 1)
ResultUsesFee(c, r, fee) ==
    r.exc = "None"
    => /\ r.value.commission_per_contract = fee
       /\ RMul(RAdd(r.value.ev_percentage, Hundred),
               RAdd(normalize_contract_price(c.contract_price), fee))
             = RMul(Hundred, NormalizeWinPercentage(c.model_win_percentage))

\* C18: the fee used by user_input_betting_framework is the explicit
\* commission_per_contract argument when one is given, and the result is then the
\* same for every state of the CommissionManager; when it is omitted, the fee is
\* the global commission_manager's rate at call time, which is the rate asked for
\* by the latest successful set_commission_rate / set_platform / reset_to_default
\* (a rejected setter call changes nothing); the evaluation leaves the manager's
\* rate and platform (and the shared state and the settings file) unchanged.
C18_FeeSource ==
    [][/\ EvaluationStep
          => /\ get_commission_rate(commission_manager')
                   = get_commission_rate(commission_manager)
             /\ get_current_platform(commission_manager')
                   = get_current_platform(commission_manager)
             /\ UNCHANGED managerVars
             /\ IF call'.commission_per_contract # None
                THEN /\ ResultUsesFee(call', ret', call'.commission_per_contract)
                     /\ \A cm \in ManagerStates :
                           ret' = user_input_betting_framework(
                                      call'.weekly_bankroll, call'.model_win_percentage,
                                      call'.contract_price,
                                      call'.commission_per_contract, cm)
                ELSE ResultUsesFee(call', ret', get_commission_rate(commission_manager))
       /\ SetterStep
          => IF ret'.exc = "None"
             THEN get_commission_rate(commission_manager') = RequestedRate
             ELSE UNCHANGED managerVars]_vars

\* C18 witness: a bet was evaluated without a fee argument after
\* set_commission_rate(0.03, "TestPlatform") and the result carries the fee 0.03
C18_Witness ==
    /\ call.fn = "user_input_betting_framework"
    /\ call.commission_per_contract = None
    /\ commission_manager = [rate |-> R(3, 100), platform |-> "TestPlatform"]
    /\ ret.exc = "None"
    /\ ret.value.decision = "BET"
    /\ ret.value.commission_per_contract = R(3, 100)

----------------------------------------------------------------------------
(* Several CommissionManager objects in one process: the global instance,   *)
(* instances constructed after the import, the setters called on any of     *)
(* them, and CommissionManager._clear_shared_state.                         *)

\* the number of instances constructed after the import
MaxInstances == 1

\* rate arguments: the upper bound, NaN, a rate above the range, a string
ManagerRateArgs == {One, NaN, R(3, 2), NotANumber}
\* platform_name arguments of set_commission_rate: a plain name and the empty string
ManagerNameArgs == {"TestPlatform", ""}
\* platform_name arguments of set_platform
ManagerPlatformArgs == {"PredictIt", "Custom", "Unknown"}

\* the objects a method can be called on: 0 is the global commission_manager
Instances == 0..Len(instances)
InstanceAt(self) == IF self = 0 THEN commission_manager ELSE instances[self]
InstanceAfter(self) == IF self = 0 THEN commission_manager' ELSE instances'[self]

\* CommissionManager._shared_commission_rate / _shared_platform after
\* _clear_shared_state
ClearedSharedState == [rate |-> None, platform |-> None]

\* a constructor that always reads the settings file
ConstructedInstanceFromFile(shared, file) == load_settings(file)

\* CommissionManager.__init__: the new instance takes the shared rate and platform
\* when a shared rate exists, and loads the settings file otherwise
ConstructedInstance(shared, file) ==
    IF shared.rate # None THEN shared ELSE load_settings(file)

\* CommissionManager(): in both branches the shared state afterwards is what the
\* new instance holds
Construct ==
    /\ pc = "idle"
    /\ Len(instances) < MaxInstances
    /\ call' = [fn |-> "CommissionManager"]
    /\ ret' = Return(None)
    /\ instances' = Append(instances, ConstructedInstance(shared_state, settings_file))
    /\ shared_state' = ConstructedInstance(shared_state, settings_file)
    /\ UNCHANGED <<commission_manager, settings_file, batchVars>>

\* a setter that keeps the new values only when they could be saved
InstallOnWhenSaved(self, new) ==
    IF settings_file.exists /\ settings_file.writable
    THEN /\ commission_manager' = IF self = 0 THEN new ELSE commission_manager
         /\ instances' = IF self = 0 THEN instances ELSE [instances EXCEPT ![self] = new]
         /\ shared_state' = new
         /\ settings_file' = save_settings(settings_file, new)
    ELSE UNCHANGED managerVars

\* the tail of the three setters called on the object self: its own fields, the
\* class-level shared fields, the settings file; no other object is touched
InstallOn(self, new) ==
    /\ commission_manager' = IF self = 0 THEN new ELSE commission_manager
    /\ instances' = IF self = 0 THEN instances ELSE [instances EXCEPT ![self] = new]
    /\ shared_state' = new
    /\ settings_file' = save_settings(settings_file, new)

\* self.set_commission_rate(rate, platform_name)
ManagerSetCommissionRate ==
    /\ pc = "idle"
    /\ \E self \in Instances, rate \in ManagerRateArgs, platform_name \in ManagerNameArgs :
          /\ call' = [fn |-> "set_commission_rate", self |-> self, rate |-> rate,
                      platform_name |-> platform_name]
          /\ IF validate_commission_rate(rate) = "None"
             THEN /\ InstallOn(self, [rate |-> rate, platform |-> platform_name])
                  /\ ret' = Return(None)
             ELSE /\ ret' = Raise(validate_commission_rate(rate))
                  /\ UNCHANGED managerVars
    /\ UNCHANGED batchVars

\* self.set_platform(platform_name)
ManagerSetPlatform ==
    /\ pc = "idle"
    /\ \E self \in Instances, platform_name \in ManagerPlatformArgs :
          /\ call' = [fn |-> "set_platform", self |-> self, platform_name |-> platform_name]
          /\ IF platform_name \notin DOMAIN PLATFORM_PRESETS \/ platform_name = "Custom"
             THEN /\ ret' = Raise("ValueError")
                  /\ UNCHANGED managerVars
             ELSE /\ InstallOn(self, [rate |-> PLATFORM_PRESETS[platform_name],
                                      platform |-> platform_name])
                  /\ ret' = Return(None)
    /\ UNCHANGED batchVars

\* self.reset_to_default()
ManagerResetToDefault ==
    /\ pc = "idle"
    /\ \E self \in Instances :
          /\ call' = [fn |-> "reset_to_default", self |-> self]
          /\ InstallOn(self, [rate |-> DEFAULT_COMMISSION_RATE,
                              platform |-> DEFAULT_PLATFORM])
          /\ ret' = Return(None)
    /\ UNCHANGED batchVars

\* CommissionManager._clear_shared_state(): the objects keep their own fields
ClearSharedState ==
    /\ pc = "idle"
    /\ call' = [fn |-> "_clear_shared_state"]
    /\ ret' = Return(None)
    /\ shared_state' = ClearedSharedState
    /\ UNCHANGED <<commission_manager, settings_file, instances, batchVars>>

NextManagers ==
    \/ Construct
    \/ ManagerSetCommissionRate
    \/ ManagerSetPlatform
    \/ ManagerResetToDefault
    \/ ClearSharedState

SpecManagers == InitSession /\ [][NextManagers]_vars

----------------------------------------------------------------------------
(* Claims about CommissionManager objects (checked under SpecManagers; the  *)
(* claim about rejected calls under SpecSession, which has more arguments). *)

\* the step is a call of a setter (call' names what was called, ret' its outcome)
SetterCalled == call'.fn \in {"set_commission_rate", "set_platform", "reset_to_default"}
SetterSucceeded == SetterCalled /\ ret'.exc = "None"
SetterRejected == SetterCalled /\ ret'.exc \in {"TypeError", "ValueError"}

\* the rate and platform a successful call of the setter named by call' asks for
Requested ==
    CASE call'.fn = "set_commission_rate" ->
             [rate |-> call'.rate, platform |-> call'.platform_name]
      [] call'.fn = "set_platform" ->
             [rate |-> PLATFORM_PRESETS[call'.platform_name],
              platform |-> call'.platform_name]
      [] call'.fn = "reset_to_default" ->
             [rate |-> DEFAULT_COMMISSION_RATE, platform |-> DEFAULT_PLATFORM]

\* what an object reports: get_commission_rate() and get_current_platform()
Reports(cm) == [rate |-> get_commission_rate(cm), platform |-> get_current_platform(cm)]

\* the rate argument is a number below MIN_COMMISSION_RATE or above
\* MAX_COMMISSION_RATE
RateOutOfRange(rate) ==
    /\ IsNumber(rate)
    /\ rate # NaN
    /\ RLt(rate, MIN_COMMISSION_RATE) \/ RGt(rate, MAX_COMMISSION_RATE)

\* C21: a rejected CommissionManager mutation changes nothing.  set_commission_rate
\* with a non-number raises TypeError, with a rate below 0.00 or above 1.00 it
\* raises ValueError, and it accepts 0.00 and 1.00 themselves; set_platform with an
\* unknown name or with "Custom" raises ValueError; and every call that raised
\* TypeError or ValueError leaves the rate and platform of every instance (the
\* one it was called on included), the class-level shared rate and platform and
\* the settings file exactly as they were before the call.
C21_RejectedSetterChangesNothing ==
    [][/\ call'.fn = "set_commission_rate"
          => /\ (~IsNumber(call'.rate) => ret' = Raise("TypeError"))
             /\ (RateOutOfRange(call'.rate) => ret' = Raise("ValueError"))
             /\ (call'.rate \in {Zero, One} => ret' = Return(None))
       /\ call'.fn = "set_platform"
          => ((call'.platform_name \notin DOMAIN PLATFORM_PRESETS
                  \/ call'.platform_name = "Custom")
              => ret' = Raise("ValueError"))
       /\ SetterRejected
          => /\ UNCHANGED managerVars
             /\ \A self \in Instances :
                   Reports(InstanceAfter(self)) = Reports(InstanceAt(self))]_vars

\* C21 witness: set_commission_rate(1.5) was rejected with ValueError while the
\* global instance, the shared state and the settings file hold the rate 1.00
\* set earlier
C21_Witness ==
    /\ call.fn = "set_commission_rate"
    /\ call.rate = R(3, 2)
    /\ ret = Raise("ValueError")
    /\ commission_manager = [rate |-> One, platform |-> "TestPlatform"]
    /\ shared_state.rate = One
    /\ settings_file.rate = One

\* the step constructed an instance while a shared rate existed
ConstructedFromSharedState ==
    /\ Len(instances') = Len(instances) + 1
    /\ shared_state.rate # None

\* C22 as stated: after a successful set_commission_rate, set_platform or
\* reset_to_default (with a rate in [0.00, 1.00]) the mutated instance reports
\* exactly the rate and platform of that call.
C22_MutatedInstanceReportsCall ==
    [][(SetterSucceeded /\ Requested.rate # NaN)
       => Reports(InstanceAfter(call'.self)) = Requested]_vars

\* C22 (amended): a successful set_commission_rate, set_platform or
\* reset_to_default on any instance leaves that instance and the class-level
\* shared state holding the rate and platform of the call (the preset rate for
\* set_platform, 0.02 / "Robinhood" for reset_to_default); the instance reports
\* that rate, and that platform when the name is not empty (an empty platform
\* name is reported as "Robinhood"); a rejected call leaves the shared state
\* alone; and an instance constructed while a shared rate exists holds and
\* reports the shared rate and platform, whatever the settings file holds, and
\* leaves the shared state and the file as they are.
C22_LatestSuccessfulCall ==
    [][/\ SetterSucceeded
          => /\ InstanceAfter(call'.self) = Requested
             /\ shared_state' = Requested
             /\ Reports(InstanceAfter(call'.self)).rate = Requested.rate
             /\ Reports(InstanceAfter(call'.self)).platform
                   = IF Requested.platform = "" THEN DEFAULT_PLATFORM
                     ELSE Requested.platform
       /\ SetterRejected => shared_state' = shared_state
       /\ ConstructedFromSharedState
          => /\ instances'[Len(instances')] = shared_state
             /\ Reports(instances'[Len(instances')]) = Reports(shared_state)
             /\ shared_state' = shared_state
             /\ settings_file' = settings_file]_vars

\* C22 witness: an instance was constructed after set_commission_rate(1.00,
\* "TestPlatform") and reports that rate and platform although the settings
\* file holds another rate
C22_Witness ==
    /\ call.fn = "CommissionManager"
    /\ Len(instances) = 1
    /\ shared_state.rate = One
    /\ Reports(instances[1]) = [rate |-> One, platform |-> "TestPlatform"]
    /\ settings_file.rate # One

\* C23: after set_commission_rate, set_platform or reset_to_default succeeds on
\* one instance (with a rate in [0.00, 1.00] and a non-empty platform name),
\* every other already-existing instance's get_commission_rate() and
\* get_current_platform() return the new rate and platform.
C23_SetterUpdatesAllInstances ==
    [][(SetterSucceeded /\ Requested.rate # NaN /\ Requested.platform # "")
       => \A other \in Instances \ {call'.self} :
             Reports(InstanceAfter(other)) = Requested]_vars

\* the arguments of the setter call named by call' pass the setter's checks
ValidSetterCall ==
    CASE call'.fn = "set_commission_rate" -> validate_commission_rate(call'.rate) = "None"
      [] call'.fn = "set_platform" ->
             /\ call'.platform_name \in DOMAIN PLATFORM_PRESETS
             /\ call'.platform_name # "Custom"
      [] call'.fn = "reset_to_default" -> TRUE

\* the settings file is missing, or opening it raises PermissionError / OSError
CannotPersist(file) == ~file.exists \/ ~file.writable

\* C24: a persistence failure never breaks a CommissionManager setter.  When the
\* settings file does not exist or cannot be opened, set_commission_rate,
\* set_platform and reset_to_default called with valid arguments raise nothing,
\* the instance and the class-level shared state hold the requested rate and
\* platform afterwards, and the file is left as it was.
C24_PersistenceFailureIsSilent ==
    [][(SetterCalled /\ ValidSetterCall /\ CannotPersist(settings_file))
       => /\ ret' = Return(None)
          /\ InstanceAfter(call'.self) = Requested
          /\ shared_state' = Requested
          /\ settings_file' = settings_file]_vars

\* C24 witness: set_platform("PredictIt") returned with a read-only settings
\* file; the instance and the shared state hold 0.10 / "PredictIt", the file
\* still holds 0.02
C24_Witness ==
    /\ call.fn = "set_platform"
    /\ ret = Return(None)
    /\ settings_file.exists
    /\ ~settings_file.writable
    /\ settings_file.rate = R(2, 100)
    /\ InstanceAt(call.self) = [rate |-> R(10, 100), platform |-> "PredictIt"]
    /\ shared_state.rate = R(10, 100)

----------------------------------------------------------------------------
(* More claims about the batch pipeline (checked under SpecBatch).          *)

\* the rows have been sorted and handed to apply_bankroll_allocation
Sorted == pc \in {"call_allocate", "allocate", "done"}

\* C25: the EV sort that feeds the allocator is stable: (with a bankroll > 0) BET
\* rows with equal 'EV Percentage' reach apply_bankroll_allocation in their
\* original input order, the order of their Game numbers.
C25_StableEvSort ==
    (Sorted /\ RGt(weekly_bankroll, Zero))
    => \A i, j \in 1..Len(df) :
          (/\ i < j
           /\ df[i].Decision = "BET"
           /\ df[j].Decision = "BET"
           /\ df[i].EV_Percentage = df[j].EV_Percentage)
          => df[i].Game < df[j].Game

----------------------------------------------------------------------------
(* More claims about user_input_betting_framework (checked under SpecEval). *)

\* the net odds and the Kelly fraction of the call under evaluation, from its
\* normalized inputs: b = 1 / (normalized price + fee) - 1, f = (b*p - (1-p)) / b
CallNetOdds == RSub(RDiv(One, CallAdjustedPrice), One)
CallKelly ==
    RDiv(RSub(RMul(CallNetOdds, CallWinProbability), RSub(One, CallWinProbability)),
         CallNetOdds)

\* its EV in percent at the adjusted price: 100 * (p / (normalized price + fee) - 1)
CallEvPercentage ==
    RMul(Hundred, RSub(RDiv(CallWinProbability, CallAdjustedPrice), One))

\* the call passes the EV floor (EV >= 10% at the adjusted price) with a positive
\* Kelly fraction
CallPassesFloorWithPositiveKelly ==
    /\ ~RIsZero(CallAdjustedPrice)
    /\ RGe(CallEvPercentage, R(10, 1))
    /\ ~RIsZero(CallNetOdds)
    /\ RGt(CallKelly, Zero)

\* C26: for every input that passes the EV floor with a positive Kelly fraction
\* and for which the function returns, the result carries target_bet_amount =
\* min(0.5 * f, 0.15) * weekly_bankroll with f = (b*p - (1-p))/b, b = 1/(normalized
\* price + fee) - 1 and p the normalized win probability, and its ev_percentage
\* is 100 * (p / (normalized price + fee) - 1): the fee is in the odds used for
\* both EV and Kelly.  No other result carries a target_bet_amount.
C26_TargetBetAmount ==
    (EvalDone /\ Returned)
    => /\ CallPassesFloorWithPositiveKelly
          => /\ "target_bet_amount" \in DOMAIN ret.value
             /\ ret.value.target_bet_amount
                   = RMul(RMin(RMul(R(1, 2), CallKelly), R(15, 100)),
                          call.weekly_bankroll)
             /\ ret.value.ev_percentage = CallEvPercentage
       /\ "target_bet_amount" \in DOMAIN ret.value => CallPassesFloorWithPositiveKelly

\* C26 witness: bankroll 100, 68% at 45 cents with the 2-cent fee: b = 53/47,
\* f = 21/53, half Kelly 19.8% is capped at 15%, target 15.00, BET
C26_Witness ==
    /\ EvalDone
    /\ Returned
    /\ call.weekly_bankroll = R(100, 1)
    /\ CallWinProbability = R(68, 100)
    /\ CallAdjustedPrice = R(47, 100)
    /\ CallFee = R(2, 100)
    /\ CallKelly = R(21, 53)
    /\ ret.value.decision = "BET"
    /\ ret.value.target_bet_amount = R(15, 1)

\* C26 witness of the uncapped branch: half Kelly below 15% gives target =
\* 0.5 * f * bankroll
C26_WitnessHalfKelly ==
    /\ EvalDone
    /\ Returned
    /\ CallPassesFloorWithPositiveKelly
    /\ RGt(call.weekly_bankroll, Zero)
    /\ RGt(CallFee, Zero)
    /\ RLt(RMul(R(1, 2), CallKelly), R(15, 100))
    /\ ret.value.target_bet_amount = RMul(RMul(R(1, 2), CallKelly), call.weekly_bankroll)

----------------------------------------------------------------------------
(* More claims about apply_bankroll_allocation (checked under SpecAlloc).   *)

\* the rows whose final status is PARTIAL BET
PartialRows == {i \in 1..Len(df) : df[i].Final_Recommendation = "PARTIAL BET"}

\* the loop has processed row i
AllocatorPassed(i) == pc = "done" \/ (pc = "allocate" /\ i < index)

\* C27: in any run of apply_bankroll_allocation with bankroll > 0, at every point
\* of the loop and at its end, there is at most one PARTIAL BET row; every
\* BET-decision row processed after it is "SKIP - Insufficient Bankroll" with
\* Cumulative Bet Amount 0; and whenever a PARTIAL BET row exists the total
\* allocated (the sum of Cumulative Bet Amount, and the local cumulative_bet)
\* equals the bankroll exactly and nothing remains.
C27_AtMostOnePartial ==
    RGt(weekly_bankroll, Zero)
    => /\ Cardinality(PartialRows) <= 1
       /\ \A i \in PartialRows :
             /\ RGt(df[i].Cumulative_Bet_Amount, Zero)
             /\ \A j \in (i + 1)..Len(df) :
                   (AllocatorPassed(j) /\ df[j].Decision = "BET")
                   => /\ df[j].Final_Recommendation = "SKIP - Insufficient Bankroll"
                      /\ df[j].Cumulative_Bet_Amount = Zero
       /\ PartialRows # {}
          => /\ SumCumulative(df) = weekly_bankroll
             /\ cumulative_bet = weekly_bankroll
             /\ remaining_bankroll = Zero

\* C27 witness: bankroll 100, BET rows of 60, 60 and 40: the first is funded, the
\* second is a PARTIAL BET of the remaining 40, the third is skipped although 40
\* is what it asked for
C27_Witness ==
    /\ pc = "done"
    /\ weekly_bankroll = R(100, 1)
    /\ Len(df) = 3
    /\ df[1].Final_Recommendation = "BET"
    /\ df[2].Final_Recommendation = "PARTIAL BET"
    /\ df[2].Cumulative_Bet_Amount = R(40, 1)
    /\ df[3].Decision = "BET"
    /\ df[3].Bet_Amount = R(40, 1)
    /\ df[3].Final_Recommendation = "SKIP - Insufficient Bankroll"
    /\ SumCumulative(df) = R(100, 1)

----------------------------------------------------------------------------
(* A sheet with many bets: process_betting_excel on sheets cut from one      *)
(* list of rows with distinct EVs, long enough for seven BET rows.           *)

\* most rows in a sheet of this kind
MaxSheetRows == 7

\* the list the sheets are cut from: 80% bets at seven prices (half Kelly above
\* the 15% cap), one at 85% / 60 cents, a small bet (55% at 47 cents, half Kelly
\* 5.9%) and a NO BET row (55% at 52 cents)
SheetRows ==
    <<[win_pct |-> R(80, 1), contract_price |-> R(45, 1)],
      [win_pct |-> R(80, 1), contract_price |-> R(20, 1)],
      [win_pct |-> R(55, 1), contract_price |-> R(52, 1)],
      [win_pct |-> R(80, 100), contract_price |-> R(50, 100)],
      [win_pct |-> R(80, 1), contract_price |-> R(30, 1)],
      [win_pct |-> R(55, 1), contract_price |-> R(47, 1)],
      [win_pct |-> R(80, 1), contract_price |-> R(25, 1)],
      [win_pct |-> R(80, 100), contract_price |-> R(40, 100)],
      [win_pct |-> R(80, 1), contract_price |-> R(35, 1)],
      [win_pct |-> R(85, 1), contract_price |-> R(60, 1)]>>

\* the sheets that keep some of the rows of s, in the order of s
RECURSIVE SubSheets(_)
SubSheets(s) ==
    IF s = <<>> THEN {<<>>}
    ELSE LET rest == SubSheets(Tail(s))
         IN  rest \cup {<<Head(s)>> \o t : t \in rest}

\* bankrolls typed at the prompt
SheetBankrollSet == {R(10, 1), R(100, 1), R(1000, 1)}

InitSheet ==
    /\ call = [fn |-> "process_betting_excel"]
    /\ ret = Pending
    /\ ManagerImported
    /\ pc = "evaluate"
    /\ weekly_bankroll \in SheetBankrollSet
    /\ input_rows \in {s \in SubSheets(SheetRows) : Len(s) <= MaxSheetRows}
    /\ df = <<>>
    /\ index = 1
    /\ remaining_bankroll = Zero
    /\ cumulative_bet = Zero

SpecSheet == InitSheet /\ [][NextBatch]_vars

\* the number of BET-decision rows above row i of the sorted table
BetRowsBefore(i) == Cardinality({j \in 1..(i - 1) : df[j].Decision = "BET"})

WholeContractsOfRow(row, amount) ==
    \E k \in 1..row.Contracts_To_Buy : amount = RMul(FromInt(k), row.Adjusted_Price)

\* C29 as stated: in the batch output every positive 'Cumulative Bet Amount' equals
\* a whole number of contracts times that row's 'Adjusted Price' (at most
\* 'Contracts To Buy' contracts), including rows whose final status is PARTIAL BET.
C29_AllocationInWholeContracts ==
    \A i \in 1..Len(df) :
       (AllocatorPassed(i) /\ RGt(df[i].Cumulative_Bet_Amount, Zero))
       => WholeContractsOfRow(df[i], df[i].Cumulative_Bet_Amount)

\* C29 (amended): in the batch output with bankroll > 0 a positive 'Cumulative Bet
\* Amount' occurs only on rows whose final status is BET or PARTIAL BET.  On a BET
\* row it equals 'Contracts To Buy' times 'Adjusted Price' (the row's 'Bet
\* Amount').  On a PARTIAL BET row it is the bankroll that remained, which is
\* less than the row's 'Bet Amount' = 'Contracts To Buy' times 'Adjusted Price'.
C29_FundedRowsInWholeContracts ==
    RGt(weekly_bankroll, Zero)
    => \A i \in 1..Len(df) :
          (AllocatorPassed(i) /\ RGt(df[i].Cumulative_Bet_Amount, Zero))
          => /\ df[i].Final_Recommendation \in {"BET", "PARTIAL BET"}
             /\ df[i].Contracts_To_Buy >= 1
             /\ df[i].Bet_Amount
                   = RMul(FromInt(df[i].Contracts_To_Buy), df[i].Adjusted_Price)
             /\ df[i].Final_Recommendation = "BET"
                => df[i].Cumulative_Bet_Amount = df[i].Bet_Amount
             /\ df[i].Final_Recommendation = "PARTIAL BET"
                => RLt(df[i].Cumulative_Bet_Amount, df[i].Bet_Amount)

\* C29 witness: a funded BET row and, below it, a PARTIAL BET row whose
\* allocation is not a whole number of its contracts
C29_Witness ==
    /\ pc = "done"
    /\ \E i, j \in 1..Len(df) :
          /\ i < j
          /\ df[i].Final_Recommendation = "BET"
          /\ df[i].Contracts_To_Buy >= 1
          /\ df[i].Cumulative_Bet_Amount
                = RMul(FromInt(df[i].Contracts_To_Buy), df[i].Adjusted_Price)
          /\ df[j].Final_Recommendation = "PARTIAL BET"
          /\ RGt(df[j].Cumulative_Bet_Amount, Zero)
          /\ ~WholeContractsOfRow(df[j], df[j].Cumulative_Bet_Amount)

\* C30: after any sequence of CommissionManager operations (construction,
\* set_commission_rate, set_platform, reset_to_default, successful or rejected,
\* and _clear_shared_state), on every instance get_commission_rate() returns a
\* number in [0.00, 1.00] and get_current_platform() returns a non-empty string.
C30_RateAndPlatformInRange ==
    \A self \in Instances :
       /\ get_commission_rate(InstanceAt(self)) # NaN
       /\ RGe(get_commission_rate(InstanceAt(self)), MIN_COMMISSION_RATE)
       /\ RLe(get_commission_rate(InstanceAt(self)), MAX_COMMISSION_RATE)
       /\ get_current_platform(InstanceAt(self)) # ""

====
